---- MODULE Spec2Model ----
(***************************************************************************)
(* The bridge gateway of kavex-bot (src/bot/mc_ws.py) with the admin       *)
(* commands of src/bot/cogs/minecraft.py that write the Link table.        *)
(*                                                                         *)
(* One asyncio loop runs every task, so a handler is atomic between two    *)
(* awaits.  Each action below is the code between two suspension points    *)
(* that have a state change between them; pc[c] is the position of the     *)
(* ws_handler task of connection c, flush_pc that of the _flush_pending    *)
(* task.  A relay invocation (_notify_bound_channels or a _relay_mc_ function)  *)
(* is one step: its rows are fixed by its single SELECT.                   *)
(*                                                                         *)
(* Left out as data no modelled decision reads: server_name, last_seen,    *)
(* "ts", message texts.  sha256 is modelled as an injective tagging.       *)
(***************************************************************************)
EXTENDS Naturals, Sequences, FiniteSets, TLC

\* ---------------------------------------------------------------- bounds
MaxFrames == 2
MaxReadyCalls == 2
\* permission queries and moderation checks handled in one run
MaxQueries == 3
\* the last tick of the clock
MaxClock == 2
\* link-request frames and linking commands handled in one run
MaxLinkOps == 4
\* send_dc_chat / send_dc_admin / send_dc_notify calls in one run
MaxSends == 2
\* characters of a chat text handed to the mention translator
MaxText == 4
\* relayed frames handled in one run of the relay loops
MaxRelays == 1

\* ------------------------------------------------------------- universes
Conns == {"c1", "c2"}
NoConn == "none"

\* characters of a token; " " is whitespace, the others are hex digits
HexChars == {"a", "b"}
TokenInputs == {<<>>, <<" ">>, <<"a">>, <<" ", "a">>, <<"b">>}
\* tokens pasted into /minecraft connect; no Link is ever made for token b
ConnectTokens == {<<"a">>, <<"a", " ">>, <<" ">>}

\* linkable entities of the one guild: a text channel and two threads of it
Channels == {"ch1", "th1", "th2"}
Threads == {"th1", "th2"}
ParentOf(ch) == IF ch \in Threads THEN "ch1" ELSE ch
NoThread == "none"
RowOrder == <<"ch1", "th1", "th2">>
\* the link targets the admin commands are issued for
AdminChannels == {"ch1"}

RelayOps == {"mc_chat", "mc_event", "mc_mod"}

\* ------------------------------------------------------- pure functions
\* str.strip() on a sequence of characters
RECURSIVE LStrip(_)
LStrip(s) == IF s # <<>> /\ Head(s) = " " THEN LStrip(Tail(s)) ELSE s

RECURSIVE RStrip(_)
RStrip(s) ==
    IF s # <<>> /\ s[Len(s)] = " " THEN RStrip(SubSeq(s, 1, Len(s) - 1)) ELSE s

Strip(s) == RStrip(LStrip(s))

\* mc_ws._token_hash: sha256(token.strip() + pepper), collision free
Token_Hash(token) == <<"sha256">> \o Strip(token)

\* the token stored as pasted
token_hash_cmd_plain(tok) == tok

\* minecraft.token_hash: sha256(tok + pepper), no strip
token_hash_cmd(tok) == <<"sha256">> \o tok

\* HEX_RE = ^[0-9a-fA-F]+$
HexMatch(tok) == tok # <<>> /\ \A i \in 1..Len(tok) : tok[i] \in HexChars

\* Optional[str] token_hash of a handler: None is the empty sequence
NoHash == <<>>
\* every key the registry can be asked for
Hashes == {token_hash_cmd(t) : t \in TokenInputs}

\* the check left out
IsMissingNever(token) == FALSE

\* `if not token`
IsMissing(token) == token = <<>>

\* `data.get("token") or ""`
TokenField(frame) == IF frame.has_token THEN frame.token ELSE <<>>

AuthFrames ==
    {[has_token |-> FALSE, token |-> <<>>]}
        \cup {[has_token |-> TRUE, token |-> t] : t \in TokenInputs}

VARIABLES
    ready,                  \* _ready_evt.is_set()
    readyCalls,             \* number of mark_discord_ready() calls so far
    connections,            \* _connections: token_hash -> ws
    pc,                     \* position of each ws_handler task
    token_hash,             \* the handler's local token_hash
    outbox,                 \* frames sent on each socket, in order
    mc_links,               \* table mc_links: channel -> [token_hash, status]
    mc_webhooks,            \* table mc_webhooks: channel -> [webhook_url, thread_id]
    pending_notifies,       \* _pending_notifies
    pending_mc_msgs,        \* _pending_mc_msgs
    pending_flush_started,  \* _pending_flush_started
    flushTasks,             \* number of asyncio.create_task(_flush_pending())
    flush_pc,               \* position of the _flush_pending task
    flush_idx,              \* index of its running for loop
    relayed,                \* relay invocations, in order: [id, via]
    posted,                 \* webhook posts, in order: [id, hook, thread]
    nextId,                 \* identity of the next arrival
    nframes,                \* frames received so far
    readyAt,                \* history: nextId when _ready_evt was first set
    now,                    \* time.time(), in whole ticks
    guild_crossmod,         \* guild_settings.crossmod_enabled: guild -> 0 / 1
    user_links,             \* table user_links: <<guild, discord_id>> -> row
    mc_perm_cache,          \* table mc_perm_cache: <<guild, mc_uuid>> -> row
    link_tokens,            \* table link_tokens: token -> row
    task,                   \* position and locals of each query / command
    probe                   \* a member handed to the profile functions

vars ==
    <<ready, readyCalls, connections, pc, token_hash, outbox, mc_links,
      mc_webhooks, pending_notifies, pending_mc_msgs, pending_flush_started,
      flushTasks, flush_pc, flush_idx, relayed, posted, nextId, nframes,
      readyAt, now, guild_crossmod, user_links, mc_perm_cache, link_tokens,
      task, probe>>

permVars == <<now, guild_crossmod, user_links, mc_perm_cache, link_tokens>>
extVars == <<permVars, task, probe>>
connVars == <<connections, pc, token_hash, outbox>>
storeVars == <<mc_links, mc_webhooks>>
pendingVars == <<pending_notifies, pending_mc_msgs>>
flushVars == <<pending_flush_started, flushTasks, flush_pc, flush_idx>>
sinkVars == <<relayed, posted>>
gateVars ==
    <<ready, readyCalls, connVars, storeVars, pendingVars, flushVars,
      sinkVars, nextId, nframes, readyAt>>

\* ------------------------------------------------------------ the store
\* a table with no rows
EmptyTable == [k \in {} |-> k]

\* INSERT OR REPLACE of the row with primary key k
Upsert(table, k, row) == (k :> row) @@ table

\* DELETE of the row with primary key k
Delete(table, k) == [x \in DOMAIN table \ {k} |-> table[x]]

\* a WHERE clause that matches no row
UpdateStatusNowhere(links, th, status) == links

\* UPDATE mc_links SET status=? WHERE token_hash=?
UpdateStatus(links, th, status) ==
    [ch \in DOMAIN links |->
        IF links[ch].token_hash = th
        THEN [links[ch] EXCEPT !.status = status]
        ELSE links[ch]]

\* the status the auth handler writes (mc_ws.py:309)
AuthStatus == "connected"

\* the status the teardown writes (mc_ws.py:437)
TeardownStatus == "disconnected"

\* SELECT guild_id, channel_id FROM mc_links WHERE token_hash=? [AND status='connected']
BoundRows(links, th, connectedOnly) ==
    SelectSeq(RowOrder,
        LAMBDA ch : /\ ch \in DOMAIN links
                    /\ links[ch].token_hash = th
                    /\ (connectedOnly => links[ch].status = "connected"))

\* _lookup_webhook_for_link: the exact row, else the row whose thread_id is
\* the linked id, else nothing
NoHook == [hook |-> "none", thread |-> NoThread]
\* the second SELECT left out
Lookup_WebhookExactOnly(hooks, ch) ==
    IF ch \in DOMAIN hooks /\ hooks[ch].webhook_url
    THEN [hook |-> ch, thread |-> hooks[ch].thread_id]
    ELSE NoHook

Lookup_Webhook(hooks, ch) ==
    IF ch \in DOMAIN hooks /\ hooks[ch].webhook_url
    THEN [hook |-> ch, thread |-> hooks[ch].thread_id]
    ELSE IF \E p \in DOMAIN hooks : hooks[p].thread_id = ch
         THEN LET p == CHOOSE q \in DOMAIN hooks : hooks[q].thread_id = ch
              IN  IF hooks[p].webhook_url
                  THEN [hook |-> p, thread |-> hooks[p].thread_id]
                  ELSE NoHook
         ELSE NoHook

\* the posts one relay invocation makes: one per row that has a webhook
RECURSIVE PostsFor(_, _, _)
PostsFor(id, rows, hooks) ==
    IF rows = <<>> THEN <<>>
    ELSE LET wh == Lookup_Webhook(hooks, Head(rows))
             rest == PostsFor(id, Tail(rows), hooks)
         IN  IF wh = NoHook THEN rest
             ELSE <<[id |-> id, hook |-> wh.hook, thread |-> wh.thread]>> \o rest

\* _notify_bound_channels(th, text): every Link of the hash
NotifyPosts(id, th) == PostsFor(id, BoundRows(mc_links, th, FALSE), mc_webhooks)

\* _relay_mc_to_discord / _relay_mc_event_to_discord / _relay_mc_mod_to_discord:
\* the connected Links of the hash
RelayPosts(id, th) == PostsFor(id, BoundRows(mc_links, th, TRUE), mc_webhooks)

\* --------------------------------------------------- the readiness gate
\* a toggle in place of a one-way set
MarkReadyToggle(isSet) == ~isSet

\* mark_discord_ready: set the event unless it is set
MarkReadyValue(isSet) == IF ~isSet THEN TRUE ELSE isSet

\* the flag ignored
StartFlushAlways(started) == TRUE

\* ws_handler, auth: `if not _pending_flush_started`
ShouldStartFlush(started) == ~started

\* the identity test left out
StillRegisteredAny(st, ws) == st # NoConn

\* ws_handler, finally: `st and st.get("ws") is ws`
StillRegistered(st, ws) == st # NoConn /\ st = ws

\* the gate left out
RelaysAlways(isSet) == TRUE

\* ws_handler, chat/event/mod: `if _ready_evt.is_set()` relays, else buffers;
\* the relay's own `await _wait_ready()` then returns at once
RelaysDirectly(isSet) == isSet

\* the for loops of _flush_pending advance by one entry
NextIdx(i) == i + 1

\* ------------------------------------------------- permissions and roles
\* the guild_permissions flags the profile reads
PermNames ==
    {"kick_members", "ban_members", "moderate_members", "manage_guild",
     "manage_roles", "manage_messages", "administrator"}

\* the roles of a guild: @everyone is the default role, positions are distinct
RoleIds == {"everyone", "A", "B", "C", "D"}
RoleInfo(r) ==
    CASE r = "everyone" ->
            [name |-> <<"e">>, position |-> 0, colour |-> 0, hoist |-> FALSE,
             is_default |-> TRUE]
      [] r = "A" ->
            [name |-> <<"A">>, position |-> 1, colour |-> 0, hoist |-> TRUE,
             is_default |-> FALSE]
      [] r = "B" ->
            [name |-> <<"B">>, position |-> 2, colour |-> 255, hoist |-> FALSE,
             is_default |-> FALSE]
      [] r = "C" ->
            [name |-> <<"C">>, position |-> 3, colour |-> 0, hoist |-> FALSE,
             is_default |-> FALSE]
      [] r = "D" ->
            [name |-> <<"D">>, position |-> 4, colour |-> 43981, hoist |-> TRUE,
             is_default |-> FALSE]

\* a discord.Member: its guild_permissions and its roles (always with @everyone)
Members ==
    [perms : SUBSET PermNames,
     roles : {rs \cup {"everyone"} : rs \in SUBSET (RoleIds \ {"everyone"})}]

\* member is None: the guild or the member could not be resolved
NoMember == [perms |-> {}, roles |-> {}]

\* Python None for prefix / color_hex (no prefix or colour string is empty)
None == <<>>

\* int(bool)
B2I(b) == IF b THEN 1 ELSE 0

\* one hexadecimal digit of format spec X
HexDigit(d) ==
    <<"0", "1", "2", "3", "4", "5", "6", "7", "8", "9",
      "A", "B", "C", "D", "E", "F">>[d + 1]

RECURSIVE HexDigits(_)
HexDigits(v) ==
    IF v < 16 THEN <<HexDigit(v)>>
    ELSE Append(HexDigits(v \div 16), HexDigit(v % 16))

RECURSIVE ZeroPad(_, _)
ZeroPad(s, width) == IF Len(s) >= width THEN s ELSE ZeroPad(<<"0">> \o s, width)

\* f"#{value:06X}"
Hex6(value) == <<"#">> \o ZeroPad(HexDigits(value), 6)

\* the administrator bit ignored
CanKickNoAdmin(perms) == "kick_members" \in perms

\* can_kick = bool(perms.kick_members or perms.administrator)
CanKick(perms) == "kick_members" \in perms \/ "administrator" \in perms

\* can_ban = bool(perms.ban_members or perms.administrator)
CanBan(perms) == "ban_members" \in perms \/ "administrator" \in perms

\* can_timeout = bool(getattr(perms, "moderate_members", False) or perms.administrator)
CanTimeout(perms) == "moderate_members" \in perms \/ "administrator" \in perms

\* is_staff = any([can_kick, can_ban, can_timeout, manage_guild, manage_roles,
\*                 moderate_members, manage_messages, administrator])
IsStaff(perms) ==
    \/ CanKick(perms)
    \/ CanBan(perms)
    \/ CanTimeout(perms)
    \/ "manage_guild" \in perms
    \/ "manage_roles" \in perms
    \/ "moderate_members" \in perms
    \/ "manage_messages" \in perms
    \/ "administrator" \in perms

\* roles = [r for r in member.roles if not r.is_default()]
NonDefault(roles) == {r \in roles : ~RoleInfo(r).is_default}

\* colored_roles = [r for r in roles if r.colour.value != 0]
ColoredRoles(roles) == {r \in NonDefault(roles) : RoleInfo(r).colour # 0}

\* hoisted_roles = [r for r in roles if r.hoist]
HoistedRoles(roles) == {r \in NonDefault(roles) : RoleInfo(r).hoist}

\* max(rs, key=lambda r: r.position) of a non-empty collection
MaxByPosition(rs) ==
    CHOOSE r \in rs : \A q \in rs : RoleInfo(q).position <= RoleInfo(r).position

NoRole == "none"

\* color_role = max(colored_roles, ...) if colored_roles else None
ColorRole(roles) ==
    IF ColoredRoles(roles) # {} THEN MaxByPosition(ColoredRoles(roles)) ELSE NoRole

\* color_hex
ColorHex(roles) ==
    IF ColorRole(roles) # NoRole THEN Hex6(RoleInfo(ColorRole(roles)).colour)
    ELSE None

\* the hoisted roles not looked at
PrefixRoleNoHoist(roles) ==
    IF ColorRole(roles) # NoRole THEN ColorRole(roles)
    ELSE MaxByPosition(NonDefault(roles))

\* prefix_role, for a member with roles: the top hoisted role, else the
\* color role, else the top role
PrefixRole(roles) ==
    IF HoistedRoles(roles) # {} THEN MaxByPosition(HoistedRoles(roles))
    ELSE IF ColorRole(roles) # NoRole THEN ColorRole(roles)
    ELSE MaxByPosition(NonDefault(roles))

\* prefix = f"[{prefix_role.name}]" if roles else None
Prefix(roles) ==
    IF NonDefault(roles) # {}
    THEN <<"[">> \o RoleInfo(PrefixRole(roles)).name \o <<"]">>
    ELSE None

\* the profile _recompute_perm_profile_for_uuid computes, caches and returns
ProfileOf(member) ==
    [can_kick |-> B2I(CanKick(member.perms)),
     can_ban |-> B2I(CanBan(member.perms)),
     can_timeout |-> B2I(CanTimeout(member.perms)),
     is_staff |-> B2I(IsStaff(member.perms)),
     prefix |-> Prefix(member.roles),
     color_hex |-> ColorHex(member.roles)]

\* the profile MCModBridge._check_mc_permission computes and caches: the same
\* expressions, but is_staff is reset when the member holds no role
BridgeProfileOf(member) ==
    [can_kick |-> B2I(CanKick(member.perms)),
     can_ban |-> B2I(CanBan(member.perms)),
     can_timeout |-> B2I(CanTimeout(member.perms)),
     is_staff |-> IF NonDefault(member.roles) # {}
                  THEN B2I(IsStaff(member.perms)) ELSE 0,
     prefix |-> Prefix(member.roles),
     color_hex |-> ColorHex(member.roles)]

\* MCForward._discord_prefix_and_color(member)
Discord_Prefix_And_Color(member) ==
    IF NonDefault(member.roles) = {} THEN <<None, None>>
    ELSE <<Prefix(member.roles), ColorHex(member.roles)>>

\* profile is None
NoProfile == [none |-> TRUE]

\* no query or command is running, no member is being probed
NoTasks == [k \in {} |-> k]
NoProbe == [stage |-> "off"]

\* the state of the tables and tasks the gateway's relay path never touches
IdleExt ==
    /\ now = 1
    /\ guild_crossmod = EmptyTable
    /\ user_links = EmptyTable
    /\ mc_perm_cache = EmptyTable
    /\ link_tokens = EmptyTable
    /\ task = NoTasks
    /\ probe = NoProbe

\* ----------------------------------------------------------------- Init
Init ==
    /\ ready = FALSE
    /\ readyCalls = 0
    /\ connections = [h \in Hashes |-> NoConn]
    /\ pc = [c \in Conns |-> "new"]
    /\ token_hash = [c \in Conns |-> NoHash]
    /\ outbox = [c \in Conns |-> <<>>]
    /\ mc_links = EmptyTable
    /\ mc_webhooks = EmptyTable
    /\ pending_notifies = <<>>
    /\ pending_mc_msgs = <<>>
    /\ pending_flush_started = FALSE
    /\ flushTasks = 0
    /\ flush_pc = "none"
    /\ flush_idx = 0
    /\ relayed = <<>>
    /\ posted = <<>>
    /\ nextId = 1
    /\ nframes = 0
    /\ readyAt = 0
    /\ IdleExt

\* ------------------------------------------------------------- actions
\* mark_discord_ready()
MarkReady ==
    /\ readyCalls < MaxReadyCalls
    /\ readyCalls' = readyCalls + 1
    /\ ready' = MarkReadyValue(ready)
    /\ UNCHANGED <<connVars, storeVars, pendingVars, flushVars, sinkVars,
                   nextId, nframes>>
    /\ UNCHANGED <<readyAt, extVars>>

\* ws_handler up to its read loop: a new socket, token_hash = None
Accept(c) ==
    /\ pc[c] = "new"
    /\ pc' = [pc EXCEPT ![c] = "open"]
    /\ UNCHANGED <<ready, readyCalls, connections, token_hash, outbox,
                   storeVars, pendingVars, flushVars, sinkVars, nextId, nframes>>
    /\ UNCHANGED <<readyAt, extVars>>

\* op == "auth", up to the first store query
AuthFrame(c, frame) ==
    /\ pc[c] = "open"
    /\ nframes < MaxFrames
    /\ nframes' = nframes + 1
    /\ LET token == Strip(TokenField(frame))
       IN  IF IsMissing(token)
           THEN /\ outbox' = [outbox EXCEPT ![c] = Append(@, "auth_fail")]
                /\ UNCHANGED <<connections, pc, token_hash>>
           ELSE /\ token_hash' = [token_hash EXCEPT ![c] = Token_Hash(token)]
                /\ connections' = [connections EXCEPT ![Token_Hash(token)] = c]
                /\ outbox' = [outbox EXCEPT ![c] = Append(@, "auth_ok")]
                /\ pc' = [pc EXCEPT ![c] = "auth_upd"]
    /\ UNCHANGED <<ready, readyCalls, storeVars, pendingVars, flushVars,
                   sinkVars, nextId>>
    /\ UNCHANGED <<readyAt, extVars>>

\* op == "auth": UPDATE mc_links SET status='connected' WHERE token_hash=?
AuthUpdate(c) ==
    /\ pc[c] = "auth_upd"
    /\ mc_links' = UpdateStatus(mc_links, token_hash[c], AuthStatus)
    /\ pc' = [pc EXCEPT ![c] = "auth_fin"]
    /\ UNCHANGED <<ready, readyCalls, connections, token_hash, outbox,
                   mc_webhooks, pendingVars, flushVars, sinkVars, nextId, nframes>>
    /\ UNCHANGED <<readyAt, extVars>>

\* a notification queued for no hash
NotificationUnkeyed(th, kind, id) == [th |-> NoHash, kind |-> kind, id |-> id]

\* _pending_notifies.append((token_hash, text)): the connected or the
\* disconnected text
Notification(th, kind, id) == [th |-> th, kind |-> kind, id |-> id]

\* op == "auth", after the commit: buffer the connect notification and
\* start the flush task unless it was started
AuthFinish(c) ==
    /\ pc[c] = "auth_fin"
    /\ pending_notifies' = Append(pending_notifies,
            Notification(token_hash[c], "connect", nextId))
    /\ nextId' = nextId + 1
    /\ IF ShouldStartFlush(pending_flush_started)
       THEN /\ pending_flush_started' = TRUE
            /\ flushTasks' = flushTasks + 1
            /\ flush_pc' = "waiting"
            /\ UNCHANGED flush_idx
       ELSE UNCHANGED flushVars
    /\ pc' = [pc EXCEPT ![c] = "open"]
    /\ UNCHANGED <<ready, readyCalls, connections, token_hash, outbox,
                   storeVars, pending_mc_msgs, sinkVars, nframes>>
    /\ UNCHANGED <<readyAt, extVars>>

\* op in {"mc_chat", "mc_event", "mc_mod"}: relay when ready, else buffer
RelayFrame(c, op) ==
    /\ pc[c] = "open"
    /\ nframes < MaxFrames
    /\ nframes' = nframes + 1
    /\ nextId' = nextId + 1
    /\ IF RelaysDirectly(ready)
       THEN /\ relayed' = Append(relayed, [id |-> nextId, via |-> "direct"])
            /\ posted' = posted \o RelayPosts(nextId, token_hash[c])
            /\ UNCHANGED pendingVars
       ELSE /\ pending_mc_msgs' = Append(pending_mc_msgs,
                    [th |-> token_hash[c], op |-> op, id |-> nextId])
            /\ UNCHANGED <<pending_notifies, sinkVars>>
    /\ UNCHANGED <<ready, readyCalls, connVars, storeVars, flushVars>>
    /\ UNCHANGED <<readyAt, extVars>>

\* the read loop ends (close, error, heartbeat timeout); finally with
\* token_hash set: UPDATE mc_links SET status='disconnected' WHERE token_hash=?
TeardownUpdate(c) ==
    /\ pc[c] = "open"
    /\ token_hash[c] # NoHash
    /\ mc_links' = UpdateStatus(mc_links, token_hash[c], TeardownStatus)
    /\ pc' = [pc EXCEPT ![c] = "td_fin"]
    /\ UNCHANGED <<ready, readyCalls, connections, token_hash, outbox,
                   mc_webhooks, pendingVars, flushVars, sinkVars, nextId, nframes>>
    /\ UNCHANGED <<readyAt, extVars>>

\* finally, after the commit: buffer the disconnect notification and pop
\* the registry entry if it is still this socket
TeardownFinish(c) ==
    /\ pc[c] = "td_fin"
    /\ pending_notifies' = Append(pending_notifies,
            Notification(token_hash[c], "disconnect", nextId))
    /\ nextId' = nextId + 1
    /\ connections' =
            IF StillRegistered(connections[token_hash[c]], c)
            THEN [connections EXCEPT ![token_hash[c]] = NoConn]
            ELSE connections
    /\ pc' = [pc EXCEPT ![c] = "closed"]
    /\ UNCHANGED <<ready, readyCalls, token_hash, outbox, storeVars,
                   pending_mc_msgs, flushVars, sinkVars, nframes>>
    /\ UNCHANGED <<readyAt, extVars>>

\* the read loop ends with token_hash = None: finally does nothing
TeardownUnauth(c) ==
    /\ pc[c] = "open"
    /\ token_hash[c] = NoHash
    /\ pc' = [pc EXCEPT ![c] = "closed"]
    /\ UNCHANGED <<ready, readyCalls, connections, token_hash, outbox,
                   storeVars, pendingVars, flushVars, sinkVars, nextId, nframes>>
    /\ UNCHANGED <<readyAt, extVars>>

\* _flush_pending resumes from `await _wait_ready()` and enters its first
\* non-empty loop
FlushWake ==
    /\ flush_pc = "waiting"
    /\ ready
    /\ flush_pc' = IF pending_notifies # <<>> THEN "notifies"
                   ELSE IF pending_mc_msgs # <<>> THEN "msgs"
                   ELSE "done"
    /\ flush_idx' = 1
    /\ UNCHANGED <<ready, readyCalls, connVars, storeVars, pendingVars,
                   pending_flush_started, flushTasks, sinkVars, nextId, nframes>>
    /\ UNCHANGED <<readyAt, extVars>>

\* one iteration of `for th, text in _pending_notifies`; when the list is
\* exhausted it is rebound to [] and the second loop is entered
FlushNotify ==
    /\ flush_pc = "notifies"
    /\ flush_idx <= Len(pending_notifies)
    /\ LET e == pending_notifies[flush_idx]
       IN  /\ relayed' = Append(relayed, [id |-> e.id, via |-> "flush"])
           /\ posted' = posted \o NotifyPosts(e.id, e.th)
    /\ IF NextIdx(flush_idx) <= Len(pending_notifies)
       THEN /\ flush_idx' = NextIdx(flush_idx)
            /\ UNCHANGED <<flush_pc, pending_notifies>>
       ELSE /\ pending_notifies' = <<>>
            /\ flush_idx' = 1
            /\ flush_pc' = IF pending_mc_msgs # <<>> THEN "msgs" ELSE "done"
    /\ UNCHANGED <<ready, readyCalls, connVars, storeVars, pending_mc_msgs,
                   pending_flush_started, flushTasks, nextId, nframes>>
    /\ UNCHANGED <<readyAt, extVars>>

\* one iteration of `for th, data in _pending_mc_msgs`; when the list is
\* exhausted it is rebound to [] and the task ends
FlushMsg ==
    /\ flush_pc = "msgs"
    /\ flush_idx <= Len(pending_mc_msgs)
    /\ LET e == pending_mc_msgs[flush_idx]
       IN  /\ relayed' = Append(relayed, [id |-> e.id, via |-> "flush"])
           /\ posted' = posted \o RelayPosts(e.id, e.th)
    /\ IF NextIdx(flush_idx) <= Len(pending_mc_msgs)
       THEN /\ flush_idx' = NextIdx(flush_idx)
            /\ UNCHANGED <<flush_pc, pending_mc_msgs>>
       ELSE /\ pending_mc_msgs' = <<>>
            /\ flush_idx' = 1
            /\ flush_pc' = "done"
    /\ UNCHANGED <<ready, readyCalls, connVars, storeVars, pending_notifies,
                   pending_flush_started, flushTasks, nextId, nframes>>
    /\ UNCHANGED <<readyAt, extVars>>

\* connect: the parent's row has a webhook_url to reuse
HaveHook(hooks, channel) ==
    ParentOf(channel) \in DOMAIN hooks /\ hooks[ParentOf(channel)].webhook_url

\* connect: the webhook row of the parent is reused or created, and a thread
\* link records its thread_id on it
ConnectHooks(hooks, channel) ==
    LET parent == ParentOf(channel)
        thread_id == IF channel \in Threads THEN channel ELSE NoThread
        hooks1 == IF HaveHook(hooks, channel) THEN hooks
                  ELSE Upsert(hooks, parent,
                              [webhook_url |-> TRUE, thread_id |-> NoThread])
    IN  IF thread_id # NoThread
        THEN [hooks1 EXCEPT ![parent].thread_id = thread_id]
        ELSE hooks1

\* connect: INSERT OR REPLACE INTO mc_links ... status 'pending'
ConnectLinks(links, tok, channel) ==
    Upsert(links, channel,
           [token_hash |-> token_hash_cmd(tok), status |-> "pending"])

\* /minecraft connect token channel; hookOk: create_webhook succeeds
Connect(token, channel, hookOk) ==
    LET tok == Strip(token)
    IN  /\ HexMatch(tok)
        /\ HaveHook(mc_webhooks, channel) \/ hookOk
        /\ mc_links' = ConnectLinks(mc_links, tok, channel)
        /\ mc_webhooks' = ConnectHooks(mc_webhooks, channel)
        /\ UNCHANGED <<ready, readyCalls, connVars, pendingVars, flushVars,
                       sinkVars, nextId, nframes>>
        /\ UNCHANGED <<readyAt, extVars>>

\* /minecraft disconnect channel
Disconnect(channel) ==
    /\ channel \in DOMAIN mc_links
    /\ mc_links' = Delete(mc_links, channel)
    /\ mc_webhooks' =
            [p \in DOMAIN mc_webhooks |->
                IF mc_webhooks[p].thread_id = channel
                THEN [mc_webhooks[p] EXCEPT !.thread_id = NoThread]
                ELSE mc_webhooks[p]]
    /\ UNCHANGED <<ready, readyCalls, connVars, pendingVars, flushVars,
                   sinkVars, nextId, nframes>>
    /\ UNCHANGED <<readyAt, extVars>>

Next ==
    \/ MarkReady
    \/ \E c \in Conns : Accept(c)
    \/ \E c \in Conns, frame \in AuthFrames : AuthFrame(c, frame)
    \/ \E c \in Conns : AuthUpdate(c)
    \/ \E c \in Conns : AuthFinish(c)
    \/ \E c \in Conns, op \in RelayOps : RelayFrame(c, op)
    \/ \E c \in Conns : TeardownUpdate(c)
    \/ \E c \in Conns : TeardownFinish(c)
    \/ \E c \in Conns : TeardownUnauth(c)
    \/ FlushWake
    \/ FlushNotify
    \/ FlushMsg
    \/ \E token \in ConnectTokens, channel \in AdminChannels, hookOk \in BOOLEAN :
            Connect(token, channel, hookOk)
    \/ \E channel \in AdminChannels : Disconnect(channel)

Spec == Init /\ [][Next]_vars

\* The admin commands on every channel and thread of the guild, next to
\* servers that authenticate.
NextAdmin ==
    \/ \E c \in Conns : Accept(c)
    \/ \E c \in Conns, frame \in AuthFrames : AuthFrame(c, frame)
    \/ \E c \in Conns : AuthUpdate(c)
    \/ \E c \in Conns : AuthFinish(c)
    \/ \E token \in ConnectTokens, channel \in Channels, hookOk \in BOOLEAN :
            Connect(token, channel, hookOk)
    \/ \E channel \in Channels : Disconnect(channel)

SpecAdmin == Init /\ [][NextAdmin]_vars

\* The gateway started on a store that already holds the Link of token a
\* (left 'disconnected' by an earlier run) and its webhook, with no admin
\* command issued while it runs.
InitLinked ==
    /\ ready = FALSE
    /\ readyCalls = 0
    /\ connections = [h \in Hashes |-> NoConn]
    /\ pc = [c \in Conns |-> "new"]
    /\ token_hash = [c \in Conns |-> NoHash]
    /\ outbox = [c \in Conns |-> <<>>]
    /\ mc_links = Upsert(EmptyTable, "ch1",
            [token_hash |-> token_hash_cmd(<<"a">>), status |-> "disconnected"])
    /\ mc_webhooks = Upsert(EmptyTable, "ch1", [webhook_url |-> TRUE, thread_id |-> NoThread])
    /\ pending_notifies = <<>>
    /\ pending_mc_msgs = <<>>
    /\ pending_flush_started = FALSE
    /\ flushTasks = 0
    /\ flush_pc = "none"
    /\ flush_idx = 0
    /\ relayed = <<>>
    /\ posted = <<>>
    /\ nextId = 1
    /\ nframes = 0
    /\ readyAt = 0
    /\ IdleExt

NextLinked ==
    \/ MarkReady
    \/ \E c \in Conns : Accept(c)
    \/ \E c \in Conns, frame \in AuthFrames : AuthFrame(c, frame)
    \/ \E c \in Conns : AuthUpdate(c)
    \/ \E c \in Conns : AuthFinish(c)
    \/ \E c \in Conns, op \in RelayOps : RelayFrame(c, op)
    \/ \E c \in Conns : TeardownUpdate(c)
    \/ \E c \in Conns : TeardownFinish(c)
    \/ \E c \in Conns : TeardownUnauth(c)
    \/ FlushWake
    \/ FlushNotify
    \/ FlushMsg

SpecLinked == InitLinked /\ [][NextLinked]_vars

\* mark_discord_ready() with the history of when the event was first set:
\* arrivals with an id below readyAt came before readiness
MarkReadyAt ==
    /\ readyCalls < MaxReadyCalls
    /\ readyCalls' = readyCalls + 1
    /\ ready' = MarkReadyValue(ready)
    /\ readyAt' = IF ~ready THEN nextId ELSE readyAt
    /\ UNCHANGED <<connVars, storeVars, pendingVars, flushVars, sinkVars,
                   nextId, nframes, extVars>>

\* the gateway of SpecLinked, with that history kept
NextGate ==
    \/ MarkReadyAt
    \/ \E c \in Conns : Accept(c)
    \/ \E c \in Conns, frame \in AuthFrames : AuthFrame(c, frame)
    \/ \E c \in Conns : AuthUpdate(c)
    \/ \E c \in Conns : AuthFinish(c)
    \/ \E c \in Conns, op \in RelayOps : RelayFrame(c, op)
    \/ \E c \in Conns : TeardownUpdate(c)
    \/ \E c \in Conns : TeardownFinish(c)
    \/ \E c \in Conns : TeardownUnauth(c)
    \/ FlushWake
    \/ FlushNotify
    \/ FlushMsg

SpecGate == InitLinked /\ [][NextGate]_vars

\* ------------------------------------------------ the profile functions
\* the gateway before any connection and before readiness
GatewayIdle ==
    /\ ready = FALSE
    /\ readyCalls = 0
    /\ connections = [h \in Hashes |-> NoConn]
    /\ pc = [c \in Conns |-> "new"]
    /\ token_hash = [c \in Conns |-> NoHash]
    /\ outbox = [c \in Conns |-> <<>>]
    /\ mc_links = EmptyTable
    /\ mc_webhooks = EmptyTable
    /\ pending_notifies = <<>>
    /\ pending_mc_msgs = <<>>
    /\ pending_flush_started = FALSE
    /\ flushTasks = 0
    /\ flush_pc = "none"
    /\ flush_idx = 0
    /\ relayed = <<>>
    /\ posted = <<>>
    /\ nextId = 1
    /\ nframes = 0
    /\ readyAt = 0

\* any member of the guild is handed to the profile functions
InitProfile ==
    /\ GatewayIdle
    /\ now = 1
    /\ guild_crossmod = EmptyTable
    /\ user_links = EmptyTable
    /\ mc_perm_cache = EmptyTable
    /\ link_tokens = EmptyTable
    /\ task = NoTasks
    /\ probe \in [stage : {"member"}, member : Members]

\* _recompute_perm_profile_for_uuid from `perms = member.guild_permissions`
\* to the dict it returns
ProbeResolve ==
    /\ probe.stage = "member"
    /\ probe' = [stage |-> "resolved", member |-> probe.member,
                 profile |-> ProfileOf(probe.member)]
    /\ UNCHANGED <<gateVars, permVars, task>>

\* the same member through _check_mc_permission and _discord_prefix_and_color
ProbeBridge ==
    /\ probe.stage = "resolved"
    /\ probe' = [stage |-> "checked", member |-> probe.member,
                 profile |-> probe.profile,
                 bridge |-> BridgeProfileOf(probe.member),
                 fwd |-> Discord_Prefix_And_Color(probe.member)]
    /\ UNCHANGED <<gateVars, permVars, task>>

NextProfile == ProbeResolve \/ ProbeBridge

SpecProfile == InitProfile /\ [][NextProfile]_vars

\* ----------------------------------------------------------- start-up
\* the ready events Discord dispatches (the first login and reconnects),
\* each handled by its own on_ready task; the server task
BootEvents == {"e1", "e2", "e3"}
ServerTask == "ws"

\* a second server started whatever the first does
NeedsServerAlways(ws) == TRUE

\* bot._ws_task is None or bot._ws_task.done()
NeedsServer(ws) == ws.pc \in {"none", "done"}

\* the process after login: no ready event handled, no server task
InitBoot ==
    /\ GatewayIdle
    /\ now = 1
    /\ guild_crossmod = EmptyTable
    /\ user_links = EmptyTable
    /\ mc_perm_cache = EmptyTable
    /\ link_tokens = EmptyTable
    /\ task = [k \in BootEvents \cup {ServerTask} |->
                IF k = ServerTask THEN [pc |-> "none", starts |-> 0]
                ELSE [pc |-> "idle"]]
    /\ probe = NoProbe

\* on_ready up to its first await (tree.sync, fetch_channels)
OnReadyEnter(e) ==
    /\ task[e].pc = "idle"
    /\ task' = [task EXCEPT ![e] = [pc |-> "warm"]]
    /\ UNCHANGED <<gateVars, permVars, probe>>

\* on_ready after its last await: mark_discord_ready(), then the server
\* task is created unless one exists that has not ended
OnReadySignal(e) ==
    /\ task[e].pc = "warm"
    /\ ready' = MarkReadyValue(ready)
    /\ readyCalls' = readyCalls + 1
    /\ task' = [task EXCEPT
            ![e] = [pc |-> "done"],
            ![ServerTask] =
                IF NeedsServer(task[ServerTask])
                THEN [pc |-> "scheduled", starts |-> task[ServerTask].starts + 1]
                ELSE task[ServerTask]]
    /\ UNCHANGED <<connVars, storeVars, pendingVars, flushVars, sinkVars,
                   nextId, nframes, readyAt, permVars, probe>>

\* run_ws_app: runner.setup() and site.start() succeed and the task sleeps
\* for ever (ok), or they raise and the task ends
ServerStart(ok) ==
    /\ task[ServerTask].pc = "scheduled"
    /\ task' = [task EXCEPT ![ServerTask].pc =
            IF ok THEN "listening" ELSE "done"]
    /\ UNCHANGED <<gateVars, permVars, probe>>

\* a connection reaches ws_handler through the listening site
ServerAccept(c) ==
    /\ task[ServerTask].pc = "listening"
    /\ Accept(c)

NextBoot ==
    \/ \E e \in BootEvents : OnReadyEnter(e)
    \/ \E e \in BootEvents : OnReadySignal(e)
    \/ \E ok \in BOOLEAN : ServerStart(ok)
    \/ \E c \in Conns : ServerAccept(c)

SpecBoot == InitBoot /\ [][NextBoot]_vars

\* ------------------------------------------- permission query and cache
Guilds == {"g1", "g2"}
DiscordUser == "d1"
PlayerName == "n"

\* the connection the permission queries arrive on, the moderation check
PermConns == {"c1"}
BridgeTask == "b1"

\* str.lower() on the characters of the account ids used here
LowerChar(ch) == IF ch = "U" THEN "u" ELSE IF ch = "B" THEN "b" ELSE ch
Lower(s) == [i \in 1..Len(s) |-> LowerChar(s[i])]

\* data.get("uuid") or ""
UuidField(data) == IF data.has_uuid THEN data.uuid ELSE <<>>

\* mc_uuid = (data.get("uuid") or "").strip().lower()
NormUuid(data) == Lower(Strip(UuidField(data)))

\* mc_perm_query frames: no uuid, the linked account in two spellings, an
\* unlinked account
UuidFrames ==
    {[has_uuid |-> FALSE, uuid |-> <<>>],
     [has_uuid |-> TRUE, uuid |-> <<"u">>],
     [has_uuid |-> TRUE, uuid |-> <<"U", " ">>],
     [has_uuid |-> TRUE, uuid |-> <<"x">>]}

\* the members the directory may return for the linked Discord account
SampleMembers ==
    {[perms |-> {"administrator"}, roles |-> {"everyone"}],
     [perms |-> {"kick_members"}, roles |-> {"everyone", "A", "B"}],
     [perms |-> {}, roles |-> {"everyone", "C"}]}

\* the user_links rows earlier /linkdiscord commands left: none, the
\* account linked in g1, the account linked in g1 and g2
LinkRow == [mc_uuid |-> <<"u">>, mc_name |-> PlayerName]
UserLinkInits ==
    {EmptyTable,
     Upsert(EmptyTable, <<"g1", DiscordUser>>, LinkRow),
     Upsert(Upsert(EmptyTable, <<"g1", DiscordUser>>, LinkRow),
            <<"g2", DiscordUser>>, LinkRow)}

\* the guild whose toggle the admin connect command is run in
ToggleGuilds == {"g1"}

\* the moderation actions a check is made for
ModActions == {"kick"}

\* a backwards clock
CacheStampBackwards(clock) == MaxClock - clock

\* the last_sync value of an upsert: time.time()
CacheStamp(clock) == clock

\* a row without the cosmetics
CacheRowCapsOnly(profile, name, clock) ==
    [mc_name |-> name, can_kick |-> profile.can_kick, can_ban |-> profile.can_ban,
     can_timeout |-> profile.can_timeout, is_staff |-> profile.is_staff,
     prefix |-> None, color_hex |-> None,
     last_sync |-> CacheStamp(clock)]

\* the row INSERT OR REPLACE INTO mc_perm_cache writes
CacheRow(profile, name, clock) ==
    [mc_name |-> name, can_kick |-> profile.can_kick, can_ban |-> profile.can_ban,
     can_timeout |-> profile.can_timeout, is_staff |-> profile.is_staff,
     prefix |-> profile.prefix, color_hex |-> profile.color_hex,
     last_sync |-> CacheStamp(clock)]

\* SELECT ... FROM user_links WHERE mc_uuid=?
LinksOfUuid(links, uuid) == {k \in DOMAIN links : links[k].mc_uuid = uuid}

\* SELECT ... FROM mc_perm_cache WHERE mc_uuid=?
RowsOfUuid(cache, uuid) == {k \in DOMAIN cache : k[2] = uuid}

\* the ORDER BY left out
LatestRowsAny(cache, uuid) == RowsOfUuid(cache, uuid)

\* ... ORDER BY last_sync DESC LIMIT 1: a row no other row of the account
\* is newer than
LatestRows(cache, uuid) ==
    {k \in RowsOfUuid(cache, uuid) :
        \A q \in RowsOfUuid(cache, uuid) : cache[q].last_sync <= cache[k].last_sync}

\* the profile dict built from a cache row
ProfileOfRow(row) ==
    [can_kick |-> row.can_kick, can_ban |-> row.can_ban,
     can_timeout |-> row.can_timeout, is_staff |-> row.is_staff,
     prefix |-> row.prefix, color_hex |-> row.color_hex]

\* null cosmetics sent as they are
ReplyFieldsWithNulls(profile) ==
    IF profile = NoProfile THEN EmptyTable
    ELSE ("prefix" :> profile.prefix) @@ ("color" :> profile.color_hex)
         @@ ("can_kick" :> profile.can_kick) @@ ("can_ban" :> profile.can_ban)
         @@ ("can_timeout" :> profile.can_timeout)
         @@ ("is_staff" :> profile.is_staff)

\* the fields of resp besides op and uuid: the cosmetics only when not None,
\* the four capabilities whenever there is a profile
ReplyFields(profile) ==
    IF profile = NoProfile THEN EmptyTable
    ELSE (IF profile.prefix # None THEN "prefix" :> profile.prefix ELSE EmptyTable)
         @@ (IF profile.color_hex # None THEN "color" :> profile.color_hex
             ELSE EmptyTable)
         @@ ("can_kick" :> profile.can_kick) @@ ("can_ban" :> profile.can_ban)
         @@ ("can_timeout" :> profile.can_timeout)
         @@ ("is_staff" :> profile.is_staff)

\* resp = {"op": "mc_permset", "uuid": mc_uuid, ...}
PermReply(uuid, profile) ==
    [op |-> "mc_permset", uuid |-> uuid, fields |-> ReplyFields(profile)]

\* a handler with no query in progress; via names the branch its last query
\* was answered by
IdleTask == [pc |-> "idle", via |-> "none"]

\* an open connection, a store with the links of earlier commands
InitPerm ==
    /\ GatewayIdle
    /\ now = 1
    /\ guild_crossmod = EmptyTable
    /\ user_links \in UserLinkInits
    /\ mc_perm_cache = EmptyTable
    /\ link_tokens = EmptyTable
    /\ task = [k \in PermConns \cup {BridgeTask} |-> IdleTask]
    /\ probe = NoProbe

\* time passes
Tick ==
    /\ now < MaxClock
    /\ now' = now + 1
    /\ UNCHANGED <<gateVars, guild_crossmod, user_links, mc_perm_cache,
                   link_tokens, task, probe>>

\* /minecraft connect ... crossmod: the guild-wide toggle it stores
SetCrossmod(g, crossmod) ==
    /\ guild_crossmod' = Upsert(guild_crossmod, g, B2I(crossmod))
    /\ UNCHANGED <<gateVars, now, user_links, mc_perm_cache, link_tokens,
                   task, probe>>

\* history: the branch that answered the handler's last query, when that
\* query was for the account uuid
PrevVia(t, uuid) ==
    IF t.via \in {"live", "cache", "nothing"} /\ NormUuid(t.data) = uuid
    THEN t.via ELSE "none"

\* op == "mc_perm_query", up to the first store query of the resolution;
\* an empty account id is answered at once
PermQuery(c, data) ==
    /\ pc[c] = "open"
    /\ task[c].pc = "idle"
    /\ nframes < MaxQueries
    /\ nframes' = nframes + 1
    /\ IF NormUuid(data) = <<>>
       THEN /\ outbox' = [outbox EXCEPT ![c] =
                    Append(@, [op |-> "mc_permset", uuid |-> NormUuid(data),
                               fields |-> EmptyTable])]
            /\ task' = [task EXCEPT ![c] =
                    [pc |-> "idle", data |-> data, via |-> "empty"]]
       ELSE /\ task' = [task EXCEPT ![c] =
                    [pc |-> "pq_link", data |-> data, uuid |-> NormUuid(data),
                     prev |-> PrevVia(task[c], NormUuid(data))]]
            /\ UNCHANGED outbox
    /\ UNCHANGED <<ready, readyCalls, connections, pc, token_hash, storeVars,
                   pendingVars, flushVars, sinkVars, nextId, readyAt,
                   permVars, probe>>

\* _recompute_perm_profile_for_uuid: SELECT ... FROM user_links WHERE
\* mc_uuid=? LIMIT 1 (any one of the matching rows)
PqLink(c) ==
    /\ task[c].pc = "pq_link"
    /\ IF LinksOfUuid(user_links, task[c].uuid) = {}
       THEN task' = [task EXCEPT ![c].pc = "pq_cache"]
       ELSE \E k \in LinksOfUuid(user_links, task[c].uuid) :
                task' = [task EXCEPT ![c] =
                    [pc |-> "pq_toggle", data |-> task[c].data,
                     uuid |-> task[c].uuid, prev |-> task[c].prev,
                     guild |-> k[1], mc_name |-> user_links[k].mc_name]]
    /\ UNCHANGED <<gateVars, permVars, probe>>

\* the toggle never read
CrossmodDisabledNever(settings, g) == FALSE

\* row and row["crossmod_enabled"] == 0: a guild without a settings row
\* counts as enabled
CrossmodDisabled(settings, g) == g \in DOMAIN settings /\ settings[g] = 0

\* SELECT crossmod_enabled FROM guild_settings WHERE guild_id=?
PqToggle(c) ==
    /\ task[c].pc = "pq_toggle"
    /\ task' = [task EXCEPT ![c].pc =
            IF CrossmodDisabled(guild_crossmod, task[c].guild)
            THEN "pq_cache" ELSE "pq_member"]
    /\ UNCHANGED <<gateVars, permVars, probe>>

\* get_guild / get_member / fetch_member, then the profile, its upsert into
\* mc_perm_cache and the reply; without a member the cache is tried
PqMember(c, member) ==
    /\ task[c].pc = "pq_member"
    /\ IF member = NoMember
       THEN /\ task' = [task EXCEPT ![c].pc = "pq_cache"]
            /\ UNCHANGED <<mc_perm_cache, outbox>>
       ELSE /\ mc_perm_cache' = Upsert(mc_perm_cache,
                    <<task[c].guild, task[c].uuid>>,
                    CacheRow(ProfileOf(member), task[c].mc_name, now))
            /\ outbox' = [outbox EXCEPT ![c] =
                    Append(@, PermReply(task[c].uuid, ProfileOf(member)))]
            /\ task' = [task EXCEPT ![c] =
                    [pc |-> "idle", data |-> task[c].data, via |-> "live"]]
    /\ UNCHANGED <<ready, readyCalls, connections, pc, token_hash, storeVars,
                   pendingVars, flushVars, sinkVars, nextId, nframes, readyAt,
                   now, guild_crossmod, user_links, link_tokens, probe>>

\* profile is None: SELECT ... FROM mc_perm_cache WHERE mc_uuid=? ORDER BY
\* last_sync DESC LIMIT 1, and the reply
PqCache(c) ==
    /\ task[c].pc = "pq_cache"
    /\ IF LatestRows(mc_perm_cache, task[c].uuid) = {}
       THEN /\ outbox' = [outbox EXCEPT ![c] =
                    Append(@, PermReply(task[c].uuid, NoProfile))]
            /\ task' = [task EXCEPT ![c] =
                    [pc |-> "idle", data |-> task[c].data, via |-> "nothing"]]
       ELSE /\ \E k \in LatestRows(mc_perm_cache, task[c].uuid) :
                    outbox' = [outbox EXCEPT ![c] =
                        Append(@, PermReply(task[c].uuid,
                                            ProfileOfRow(mc_perm_cache[k])))]
            /\ task' = [task EXCEPT ![c] =
                    [pc |-> "idle", data |-> task[c].data, via |-> "cache",
                     prev |-> task[c].prev]]
    /\ UNCHANGED <<ready, readyCalls, connections, pc, token_hash, storeVars,
                   pendingVars, flushVars, sinkVars, nextId, nframes, readyAt,
                   permVars, probe>>

\* _check_mc_permission(guild, mc_name, action) up to its toggle query:
\* with cross moderation disabled it denies
BridgeCheck(g, action) ==
    /\ task[BridgeTask].pc = "idle"
    /\ nframes < MaxQueries
    /\ nframes' = nframes + 1
    /\ task' = [task EXCEPT ![BridgeTask] =
            IF CrossmodDisabled(guild_crossmod, g)
            THEN [pc |-> "idle", allowed |-> FALSE]
            ELSE [pc |-> "b_link", guild |-> g, action |-> action]]
    /\ UNCHANGED <<ready, readyCalls, connVars, storeVars, pendingVars,
                   flushVars, sinkVars, nextId, readyAt, permVars, probe>>

\* SELECT discord_id, mc_uuid FROM user_links WHERE guild_id=? AND mc_name=?
BridgeLink ==
    /\ task[BridgeTask].pc = "b_link"
    /\ LET g == task[BridgeTask].guild
           rows == {k \in DOMAIN user_links :
                        k[1] = g /\ user_links[k].mc_name = PlayerName}
       IN  IF rows = {}
           THEN task' = [task EXCEPT ![BridgeTask] =
                    [pc |-> "idle", allowed |-> FALSE]]
           ELSE \E k \in rows :
                    task' = [task EXCEPT ![BridgeTask] =
                        [pc |-> "b_member", guild |-> g,
                         action |-> task[BridgeTask].action,
                         uuid |-> user_links[k].mc_uuid]]
    /\ UNCHANGED <<gateVars, permVars, probe>>

\* every action allowed
AllowedByAnyone(profile, action) == TRUE

\* the capability of a profile for an action
AllowedBy(profile, action) ==
    CASE action = "kick" -> profile.can_kick = 1
      [] action = "ban" -> profile.can_ban = 1
      [] action = "timeout" -> profile.can_timeout = 1
      [] OTHER -> FALSE

\* with a member: the profile and its upsert into mc_perm_cache; without:
\* the cached row of (guild, account), else denial
BridgeMember(member) ==
    /\ task[BridgeTask].pc = "b_member"
    /\ LET g == task[BridgeTask].guild
           uuid == task[BridgeTask].uuid
           action == task[BridgeTask].action
       IN  IF member # NoMember
           THEN /\ mc_perm_cache' = Upsert(mc_perm_cache, <<g, uuid>>,
                        CacheRow(BridgeProfileOf(member), PlayerName, now))
                /\ task' = [task EXCEPT ![BridgeTask] =
                        [pc |-> "idle",
                         allowed |-> AllowedBy(BridgeProfileOf(member), action)]]
           ELSE /\ UNCHANGED mc_perm_cache
                /\ task' = [task EXCEPT ![BridgeTask] =
                        [pc |-> "idle",
                         allowed |->
                            /\ <<g, uuid>> \in DOMAIN mc_perm_cache
                            /\ AllowedBy(mc_perm_cache[<<g, uuid>>], action)]]
    /\ UNCHANGED <<gateVars, now, guild_crossmod, user_links, link_tokens,
                   probe>>

NextPerm ==
    \/ \E c \in PermConns : Accept(c)
    \/ Tick
    \/ \E g \in ToggleGuilds, crossmod \in BOOLEAN : SetCrossmod(g, crossmod)
    \/ \E c \in PermConns, data \in UuidFrames : PermQuery(c, data)
    \/ \E c \in PermConns : PqLink(c)
    \/ \E c \in PermConns : PqToggle(c)
    \/ \E c \in PermConns, member \in SampleMembers \cup {NoMember} :
            PqMember(c, member)
    \/ \E c \in PermConns : PqCache(c)
    \/ \E g \in Guilds, action \in ModActions : BridgeCheck(g, action)
    \/ BridgeLink
    \/ \E member \in SampleMembers \cup {NoMember} : BridgeMember(member)

SpecPerm == InitPerm /\ [][NextPerm]_vars

\* the moderation check alone, for each of the commands !dckick, !dcban and
\* !dctimeout
BridgeActions == {"kick", "ban", "timeout"}

NextBridge ==
    \/ Tick
    \/ \E g \in ToggleGuilds, crossmod \in BOOLEAN : SetCrossmod(g, crossmod)
    \/ \E g \in Guilds, action \in BridgeActions : BridgeCheck(g, action)
    \/ BridgeLink
    \/ \E member \in SampleMembers \cup {NoMember} : BridgeMember(member)

SpecBridge == InitPerm /\ [][NextBridge]_vars

\* ------------------------------------------------------- account linking
\* the Discord users who run /linkdiscord, one command at a time each
LinkUsers == {"d1", "d2"}
LinkGuild == "g1"

\* mc_link_request frames: complete ones, one without an account id, and
\* ones whose code or name is blank, empty or absent
LinkFrames ==
    {[has_code |-> TRUE, code |-> <<"k">>, uuid |-> <<"u">>,
      has_name |-> TRUE, name |-> <<"n">>],
     [has_code |-> TRUE, code |-> <<"k", " ">>, uuid |-> <<"U">>,
      has_name |-> TRUE, name |-> <<"n">>],
     [has_code |-> TRUE, code |-> <<"k">>, uuid |-> <<>>,
      has_name |-> TRUE, name |-> <<"n">>],
     [has_code |-> TRUE, code |-> <<" ">>, uuid |-> <<"u">>,
      has_name |-> TRUE, name |-> <<"n">>],
     [has_code |-> TRUE, code |-> <<"k">>, uuid |-> <<"u">>,
      has_name |-> TRUE, name |-> <<>>],
     [has_code |-> FALSE, code |-> <<>>, uuid |-> <<"u">>,
      has_name |-> TRUE, name |-> <<"n">>],
     [has_code |-> TRUE, code |-> <<"k">>, uuid |-> <<"u">>,
      has_name |-> FALSE, name |-> <<>>]}

\* code = (data.get("code") or "").strip()
CodeField(data) == Strip(IF data.has_code THEN data.code ELSE <<>>)

\* mc_name = (data.get("name") or "").strip()
NameField(data) == Strip(IF data.has_name THEN data.name ELSE <<>>)

\* the name not looked at
LinkFieldsMissingCodeOnly(code, mc_name) == code = <<>>

\* `if not code or not mc_name`
LinkFieldsMissing(code, mc_name) == code = <<>> \/ mc_name = <<>>

\* the code argument of /linkdiscord
LinkCodes == {<<"k">>, <<" ", "k">>, <<" ">>}

\* 3600 * 24 seconds, in ticks of the clock: a tick is longer than a day
LinkMaxAge == 0

\* the used flag not looked at
IsUsedNever(row) == FALSE

\* linkdiscord: `if row["used"]`
IsUsed(row) == row.used # 0

\* linkdiscord: `if created_at and time.time() - created_at > 3600 * 24`
IsExpired(row, clock) ==
    row.created_at # 0 /\ clock - row.created_at > LinkMaxAge

\* UPDATE link_tokens SET used=1 WHERE token=?
MarkUsed(tokens, token) ==
    [t \in DOMAIN tokens |->
        IF t = token THEN [tokens[t] EXCEPT !.used = 1] ELSE tokens[t]]

\* an open store with no token and no link, no command running
InitLink ==
    /\ GatewayIdle
    /\ now = 1
    /\ guild_crossmod = EmptyTable
    /\ user_links = EmptyTable
    /\ mc_perm_cache = EmptyTable
    /\ link_tokens = EmptyTable
    /\ task = [u \in LinkUsers |-> [pc |-> "idle", result |-> "none"]]
    /\ probe = NoProbe

\* op == "mc_link_request": a missing code or name gets a failure ack; else
\* INSERT OR REPLACE INTO link_tokens(...) VALUES (?,?,?,?,0) and a success ack
LinkRequest(c, data) ==
    /\ pc[c] = "open"
    /\ nframes < MaxLinkOps
    /\ nframes' = nframes + 1
    /\ LET code == CodeField(data)
           mc_uuid == Strip(data.uuid)
           mc_name == NameField(data)
       IN  IF LinkFieldsMissing(code, mc_name)
           THEN /\ outbox' = [outbox EXCEPT ![c] =
                        Append(@, [op |-> "mc_link_ack", ok |-> FALSE])]
                /\ UNCHANGED link_tokens
           ELSE /\ link_tokens' = Upsert(link_tokens, code,
                        [mc_uuid |-> mc_uuid, mc_name |-> mc_name,
                         created_at |-> now, used |-> 0])
                /\ outbox' = [outbox EXCEPT ![c] =
                        Append(@, [op |-> "mc_link_ack", ok |-> TRUE])]
    /\ UNCHANGED <<ready, readyCalls, connections, pc, token_hash, storeVars,
                   pendingVars, flushVars, sinkVars, nextId, readyAt, now,
                   guild_crossmod, user_links, mc_perm_cache, task, probe>>

\* /linkdiscord code, up to its SELECT; an empty code is refused at once.
\* late: a command of another user had already consumed this code when this
\* one was issued (history)
LinkCmd(u, code) ==
    /\ task[u].pc = "idle"
    /\ nframes < MaxLinkOps
    /\ nframes' = nframes + 1
    /\ task' = [task EXCEPT ![u] =
            IF Strip(code) = <<>>
            THEN [pc |-> "idle", result |-> "invalid"]
            ELSE [pc |-> "lk_select", token |-> Strip(code),
                  late |-> \E v \in LinkUsers \ {u} :
                                /\ task[v].pc = "idle"
                                /\ task[v].result = "linked"
                                /\ task[v].token = Strip(code)]]
    /\ UNCHANGED <<ready, readyCalls, connVars, storeVars, pendingVars,
                   flushVars, sinkVars, nextId, readyAt, permVars, probe>>

\* SELECT mc_uuid, mc_name, created_at, used FROM link_tokens WHERE token=?
LkSelect(u) ==
    /\ task[u].pc = "lk_select"
    /\ task' = [task EXCEPT ![u] =
            IF task[u].token \notin DOMAIN link_tokens
            THEN [pc |-> "idle", result |-> "unknown"]
            ELSE [pc |-> "lk_insert", token |-> task[u].token,
                  late |-> task[u].late, row |-> link_tokens[task[u].token]]]
    /\ UNCHANGED <<gateVars, permVars, probe>>

\* the checks on the row read, then INSERT OR REPLACE INTO user_links
LkInsert(u) ==
    /\ task[u].pc = "lk_insert"
    /\ IF IsUsed(task[u].row)
       THEN /\ task' = [task EXCEPT ![u] = [pc |-> "idle", result |-> "used"]]
            /\ UNCHANGED user_links
       ELSE IF IsExpired(task[u].row, now)
       THEN /\ task' = [task EXCEPT ![u] = [pc |-> "idle", result |-> "expired"]]
            /\ UNCHANGED user_links
       ELSE /\ user_links' = Upsert(user_links, <<LinkGuild, u>>,
                    [mc_uuid |-> task[u].row.mc_uuid,
                     mc_name |-> task[u].row.mc_name])
            /\ task' = [task EXCEPT ![u].pc = "lk_mark"]
    /\ UNCHANGED <<gateVars, now, guild_crossmod, mc_perm_cache, link_tokens,
                   probe>>

\* UPDATE link_tokens SET used=1 WHERE token=?, commit, confirmation
LkMark(u) ==
    /\ task[u].pc = "lk_mark"
    /\ link_tokens' = MarkUsed(link_tokens, task[u].token)
    /\ task' = [task EXCEPT ![u] =
            [pc |-> "idle", result |-> "linked", token |-> task[u].token]]
    /\ UNCHANGED <<gateVars, now, guild_crossmod, user_links, mc_perm_cache,
                   probe>>

NextLink ==
    \/ \E c \in PermConns : Accept(c)
    \/ Tick
    \/ \E c \in PermConns, data \in LinkFrames : LinkRequest(c, data)
    \/ \E u \in LinkUsers, code \in LinkCodes : LinkCmd(u, code)
    \/ \E u \in LinkUsers : LkSelect(u)
    \/ \E u \in LinkUsers : LkInsert(u)
    \/ \E u \in LinkUsers : LkMark(u)

SpecLink == InitLink /\ [][NextLink]_vars

\* ------------------------------------------------------- other frames
\* text frames that are no known request: a JSON object with an op that no
\* branch tests, a JSON object without op, and JSON that is no object
FrameShapes == {"unknown_op", "no_op", "not_object"}

\* data.get("op"): an object gives its op or None, anything else has no
\* get and raises AttributeError
GetOpRaises(shape) == shape = "not_object"

\* nothing sent
BadJsonSilent(box) == box

\* ws.send_json({"op": "error", "err": "bad_json"})
BadJsonReply(box) == Append(box, "error_bad_json")

\* json.loads(msg.data) raises: the error reply, then `continue`
BadJsonFrame(c) ==
    /\ pc[c] = "open"
    /\ nframes < MaxFrames
    /\ nframes' = nframes + 1
    /\ outbox' = [outbox EXCEPT ![c] = BadJsonReply(@)]
    /\ UNCHANGED <<ready, readyCalls, connections, pc, token_hash, storeVars,
                   pendingVars, flushVars, sinkVars, nextId>>
    /\ UNCHANGED <<readyAt, extVars>>

\* a parsed frame that no branch of the if/elif chain takes; when
\* data.get raises, the exception leaves the read loop and the finally
\* block runs as on a close
OtherFrame(c, shape) ==
    /\ pc[c] = "open"
    /\ nframes < MaxFrames
    /\ nframes' = nframes + 1
    /\ IF ~GetOpRaises(shape)
       THEN UNCHANGED <<pc, mc_links>>
       ELSE IF token_hash[c] = NoHash
       THEN /\ pc' = [pc EXCEPT ![c] = "closed"]
            /\ UNCHANGED mc_links
       ELSE /\ mc_links' = UpdateStatus(mc_links, token_hash[c], TeardownStatus)
            /\ pc' = [pc EXCEPT ![c] = "td_fin"]
    /\ UNCHANGED <<ready, readyCalls, connections, token_hash, outbox,
                   mc_webhooks, pendingVars, flushVars, sinkVars, nextId>>
    /\ UNCHANGED <<readyAt, extVars>>

\* the gateway of SpecLinked with these frames among the others
NextFrames ==
    \/ MarkReady
    \/ \E c \in Conns : Accept(c)
    \/ \E c \in Conns, frame \in AuthFrames : AuthFrame(c, frame)
    \/ \E c \in Conns : AuthUpdate(c)
    \/ \E c \in Conns : AuthFinish(c)
    \/ \E c \in Conns, op \in RelayOps : RelayFrame(c, op)
    \/ \E c \in Conns : BadJsonFrame(c)
    \/ \E c \in Conns, shape \in FrameShapes : OtherFrame(c, shape)
    \/ \E c \in Conns : TeardownUpdate(c)
    \/ \E c \in Conns : TeardownFinish(c)
    \/ \E c \in Conns : TeardownUnauth(c)
    \/ FlushWake
    \/ FlushNotify
    \/ FlushMsg

SpecFrames == InitLinked /\ [][NextFrames]_vars

\* ------------------------------------------------------- sink resolver
\* the text channels that may hold a webhook row and the ids looked up
HookParents == {"ch1", "ch2"}
HookIds == HookParents \cup Threads

\* the rows a parent may have: none, or one with or without a webhook_url
\* (a row migrated from the legacy schema has none) and with or without a
\* thread_id
HookRows ==
    [webhook_url : BOOLEAN, thread_id : {NoThread} \cup Threads]

\* the tables over these rows; a thread is recorded on one parent at most
HookTables ==
    {h \in UNION {[ps -> HookRows] : ps \in SUBSET HookParents} :
        \A p, q \in DOMAIN h :
            (h[p].thread_id = h[q].thread_id /\ h[p].thread_id # NoThread)
                => p = q}

\* any such table and any id are handed to the resolver
InitHook ==
    /\ ready = FALSE
    /\ readyCalls = 0
    /\ connections = [h \in Hashes |-> NoConn]
    /\ pc = [c \in Conns |-> "new"]
    /\ token_hash = [c \in Conns |-> NoHash]
    /\ outbox = [c \in Conns |-> <<>>]
    /\ mc_links = EmptyTable
    /\ mc_webhooks \in HookTables
    /\ pending_notifies = <<>>
    /\ pending_mc_msgs = <<>>
    /\ pending_flush_started = FALSE
    /\ flushTasks = 0
    /\ flush_pc = "none"
    /\ flush_idx = 0
    /\ relayed = <<>>
    /\ posted = <<>>
    /\ nextId = 1
    /\ nframes = 0
    /\ readyAt = 0
    /\ now = 1
    /\ guild_crossmod = EmptyTable
    /\ user_links = EmptyTable
    /\ mc_perm_cache = EmptyTable
    /\ link_tokens = EmptyTable
    /\ task = NoTasks
    /\ probe \in [stage : {"hook"}, id : HookIds]

\* wh_url, thread_id = await _lookup_webhook_for_link(gid, cid)
HookResolve ==
    /\ probe.stage = "hook"
    /\ probe' = [stage |-> "hooked", id |-> probe.id,
                 result |-> Lookup_Webhook(mc_webhooks, probe.id)]
    /\ UNCHANGED <<gateVars, permVars, task>>

NextHook == HookResolve

SpecHook == InitHook /\ [][NextHook]_vars

\* ------------------------------------------------- Discord to Minecraft
\* the three senders and the op of their payload
SendKinds == {"dc_chat", "dc_admin", "dc_notify"}

\* the (guild, channel) a sender is called for: a linked and an unlinked one
SendChannels == {"ch1", "th1"}

\* the task that runs the senders, one call at a time
SendTask == "s1"

\* SELECT token_hash FROM mc_links WHERE guild_id=? AND channel_id=? AND
\* status='connected': the primary key (guild_id, channel_id) leaves at most
\* one row
ConnectedRows(links, channel) ==
    IF channel \in DOMAIN links /\ links[channel].status = "connected"
    THEN <<links[channel].token_hash>> ELSE <<>>

\* st = _connections.get(th); ws = st.get("ws") if st else None
SocketOf(registry, th) == IF th \in DOMAIN registry THEN registry[th] ELSE NoConn

\* a failed write counted too
DeliveredAfterAny(delivered, ok) == delivered + 1

\* await ws.send_str(payload); delivered += 1, skipped by an exception
DeliveredAfter(delivered, ok) == IF ok THEN delivered + 1 ELSE delivered

\* a write on a closed socket raises; on any other it may succeed or raise
WriteOutcomes(c) == IF pc[c] = "closed" THEN {FALSE} ELSE BOOLEAN

\* the gateway on a store that holds the Link of token a, no sender running
InitSend ==
    /\ ready = FALSE
    /\ readyCalls = 0
    /\ connections = [h \in Hashes |-> NoConn]
    /\ pc = [c \in Conns |-> "new"]
    /\ token_hash = [c \in Conns |-> NoHash]
    /\ outbox = [c \in Conns |-> <<>>]
    /\ mc_links = Upsert(EmptyTable, "ch1",
            [token_hash |-> token_hash_cmd(<<"a">>), status |-> "disconnected"])
    /\ mc_webhooks = Upsert(EmptyTable, "ch1", [webhook_url |-> TRUE, thread_id |-> NoThread])
    /\ pending_notifies = <<>>
    /\ pending_mc_msgs = <<>>
    /\ pending_flush_started = FALSE
    /\ flushTasks = 0
    /\ flush_pc = "none"
    /\ flush_idx = 0
    /\ relayed = <<>>
    /\ posted = <<>>
    /\ nextId = 1
    /\ nframes = 0
    /\ readyAt = 0
    /\ now = 1
    /\ guild_crossmod = EmptyTable
    /\ user_links = EmptyTable
    /\ mc_perm_cache = EmptyTable
    /\ link_tokens = EmptyTable
    /\ task = [k \in {SendTask} |->
                [pc |-> "idle", sid |-> 0, delivered |-> 0, failed |-> 0]]
    /\ probe = NoProbe

\* send_dc_chat / send_dc_admin / send_dc_notify up to the loop: without a
\* connected Link it returns 0
SendStart(kind, channel) ==
    /\ task[SendTask].pc = "idle"
    /\ task[SendTask].sid < MaxSends
    /\ LET rows == ConnectedRows(mc_links, channel)
       IN  task' = [task EXCEPT ![SendTask] =
                IF rows = <<>>
                THEN [pc |-> "idle", sid |-> task[SendTask].sid + 1,
                      delivered |-> 0, failed |-> 0]
                ELSE [pc |-> "s_loop", sid |-> task[SendTask].sid + 1,
                      delivered |-> 0, failed |-> 0, kind |-> kind,
                      rows |-> rows, idx |-> 1]]
    /\ UNCHANGED <<gateVars, permVars, probe>>

\* one iteration of `for r in rows`: the socket registered for the row's
\* hash, if any, is written to; an exception is logged and the loop goes on;
\* after the last row the count is returned
SendWrite(ok) ==
    /\ task[SendTask].pc = "s_loop"
    /\ LET t == task[SendTask]
           ws == SocketOf(connections, t.rows[t.idx])
           last == NextIdx(t.idx) > Len(t.rows)
       IN  /\ ws # NoConn => ok \in WriteOutcomes(ws)
           /\ ws = NoConn => ok = FALSE
           /\ outbox' =
                IF ws # NoConn /\ ok
                THEN [outbox EXCEPT ![ws] = Append(@, t.kind)]
                ELSE outbox
           /\ task' = [task EXCEPT ![SendTask] =
                [pc |-> IF last THEN "idle" ELSE "s_loop",
                 sid |-> t.sid,
                 delivered |-> IF ws # NoConn
                               THEN DeliveredAfter(t.delivered, ok)
                               ELSE t.delivered,
                 failed |-> IF ws # NoConn /\ ~ok THEN t.failed + 1
                            ELSE t.failed,
                 kind |-> t.kind, rows |-> t.rows, idx |-> NextIdx(t.idx)]]
    /\ UNCHANGED <<ready, readyCalls, connections, pc, token_hash, storeVars,
                   pendingVars, flushVars, sinkVars, nextId, nframes, readyAt,
                   permVars, probe>>

NextSend ==
    \/ \E c \in Conns : Accept(c)
    \/ \E c \in Conns, frame \in AuthFrames : AuthFrame(c, frame)
    \/ \E c \in Conns : AuthUpdate(c)
    \/ \E c \in Conns : AuthFinish(c)
    \/ \E c \in Conns : TeardownUpdate(c)
    \/ \E c \in Conns : TeardownFinish(c)
    \/ \E c \in Conns : TeardownUnauth(c)
    \/ \E kind \in SendKinds, channel \in SendChannels : SendStart(kind, channel)
    \/ \E ok \in BOOLEAN : SendWrite(ok)

SpecSend == InitSend /\ [][NextSend]_vars

\* ---------------------------------------------------- mention translator
\* MC_MENTION_RE = @([A-Za-z0-9_]{2,32})
MentionMin == 2
MentionMax == 32

\* the characters of a chat text: word characters, a blank and the at sign
WordChars == {"b", "B", "o"}
TextChars == WordChars \cup {" ", "@"}

\* guild.members in cache order, and the names each member bears: d2's
\* display name collides with d1's user name when lower-cased
GuildMembers == <<"d1", "d2">>
MemberNames(m) ==
    IF m = "d1" THEN {<<"b", "o">>} ELSE {<<"o", "b">>, <<"B", "o">>}

\* candidates: the lower-cased name, display name and global name
Candidates(m) == {Lower(n) : n \in MemberNames(m)}

\* f"<@{did}>"
MentionOf(did) == IF did = "d1" THEN "<@d1>" ELSE "<@d2>"

\* the word characters that follow position i
RECURSIVE WordRun(_, _)
WordRun(text, i) ==
    IF i > Len(text) \/ text[i] \notin WordChars THEN 0
    ELSE 1 + WordRun(text, i + 1)

Min(a, b) == IF a < b THEN a ELSE b

\* finditer / re.sub: leftmost matches of the pattern, greedy, not
\* overlapping; everything between them is literal
RECURSIVE Scan(_, _)
Scan(text, i) ==
    IF i > Len(text) THEN <<>>
    ELSE LET run == Min(WordRun(text, i + 1), MentionMax)
         IN  IF text[i] = "@" /\ run >= MentionMin
             THEN <<[lit |-> FALSE, s |-> SubSeq(text, i + 1, i + run)]>>
                    \o Scan(text, i + run + 1)
             ELSE <<[lit |-> TRUE, s |-> <<text[i]>>]>> \o Scan(text, i + 1)

\* name_to_member.setdefault(n, m) for the candidates of each member in turn
RECURSIVE Name_To_Member(_, _)
Name_To_Member(members, acc) ==
    IF members = <<>> THEN acc
    ELSE LET m == Head(members)
             fresh == Candidates(m) \ DOMAIN acc
         IN  Name_To_Member(Tail(members),
                [n \in DOMAIN acc \cup fresh |->
                    IF n \in DOMAIN acc THEN acc[n] ELSE m])

\* SELECT discord_id FROM user_links WHERE guild_id=?
Linked_Ids(links) == {k[2] : k \in {q \in DOMAIN links : q[1] = LinkGuild}}

\* the linked test left out
Token_To_IdAnyMember(token, names, linked) ==
    IF Lower(token) \in DOMAIN names THEN names[Lower(token)] ELSE "none"

\* token_to_id: the member mapped to the lower-cased token, if linked
Token_To_Id(token, names, linked) ==
    IF Lower(token) \in DOMAIN names /\ names[Lower(token)] \in linked
    THEN names[Lower(token)] ELSE "none"

\* repl over the matches, the rest copied
RECURSIVE Render(_, _, _)
Render(segs, names, linked) ==
    IF segs = <<>> THEN <<>>
    ELSE LET g == Head(segs)
             did == IF g.lit THEN "none" ELSE Token_To_Id(g.s, names, linked)
         IN  (IF g.lit THEN g.s
              ELSE IF did = "none" THEN <<"@">> \o g.s
              ELSE <<MentionOf(did)>>)
             \o Render(Tail(segs), names, linked)

\* _apply_mc_mentions_to_discord(token_hash, text)
Apply_Mc_Mentions(th, text, mclinks, links) ==
    IF th = NoHash \/ \A i \in 1..Len(text) : text[i] # "@" THEN text
    ELSE IF \A i \in 1..Len(Scan(text, 1)) : Scan(text, 1)[i].lit THEN text
    ELSE IF \A ch \in DOMAIN mclinks : mclinks[ch].token_hash # th THEN text
    ELSE IF Linked_Ids(links) = {} THEN text
    ELSE Render(Scan(text, 1), Name_To_Member(GuildMembers, EmptyTable),
                Linked_Ids(links))

\* the chat texts of up to MaxText characters
MentionTexts == UNION {[1..n -> TextChars] : n \in 0..MaxText}

\* the account links of the bound guild: any set of its members
MentionLinks ==
    {[k \in {<<LinkGuild, m>> : m \in ms} |-> LinkRow] : ms \in SUBSET LinkUsers}

\* any text is handed to the translator on the hash of a bound Link
InitMention ==
    /\ ready = TRUE
    /\ readyCalls = 1
    /\ connections = [h \in Hashes |-> NoConn]
    /\ pc = [c \in Conns |-> "new"]
    /\ token_hash = [c \in Conns |-> NoHash]
    /\ outbox = [c \in Conns |-> <<>>]
    /\ mc_links = Upsert(EmptyTable, "ch1",
            [token_hash |-> token_hash_cmd(<<"a">>), status |-> "connected"])
    /\ mc_webhooks = Upsert(EmptyTable, "ch1",
            [webhook_url |-> TRUE, thread_id |-> NoThread])
    /\ pending_notifies = <<>>
    /\ pending_mc_msgs = <<>>
    /\ pending_flush_started = FALSE
    /\ flushTasks = 0
    /\ flush_pc = "none"
    /\ flush_idx = 0
    /\ relayed = <<>>
    /\ posted = <<>>
    /\ nextId = 1
    /\ nframes = 0
    /\ readyAt = 0
    /\ now = 1
    /\ guild_crossmod = EmptyTable
    /\ user_links \in MentionLinks
    /\ mc_perm_cache = EmptyTable
    /\ link_tokens = EmptyTable
    /\ task = NoTasks
    /\ probe \in [stage : {"mention"}, text : MentionTexts]

\* text = await _apply_mc_mentions_to_discord(token_hash, text)
MentionApply ==
    /\ probe.stage = "mention"
    /\ probe' = [stage |-> "mentioned", text |-> probe.text,
                 result |-> Apply_Mc_Mentions(token_hash_cmd(<<"a">>),
                                              probe.text, mc_links, user_links)]
    /\ UNCHANGED <<gateVars, permVars, task>>

NextMention == MentionApply

SpecMention == InitMention /\ [][NextMention]_vars

\* ------------------------------------------------------- the relay loops
\* the handler's relay and the flush task's notification, each a loop over
\* the bound rows
RelayTask == "r1"
NotifyTask == "f1"
LoopTasks == {RelayTask, NotifyTask}

\* the one socket of this specification, which authenticates once
RelayConns == {"c1"}

\* data.get("text", ""): with and without a mention
RelayTexts == {<<"@", "b", "o">>, <<"b", "o">>}

\* the stores left by connect commands with token a, each channel linked at
\* most once, in any order
RECURSIVE StoreAfter(_)
StoreAfter(seq) ==
    IF seq = <<>> THEN [links |-> EmptyTable, hooks |-> EmptyTable]
    ELSE LET before == StoreAfter(SubSeq(seq, 1, Len(seq) - 1))
             channel == seq[Len(seq)]
         IN  [links |-> ConnectLinks(before.links, <<"a">>, channel),
              hooks |-> ConnectHooks(before.hooks, channel)]

ConnectSeqs ==
    {seq \in UNION {[1..n -> Channels] : n \in 0..Cardinality(Channels)} :
        \A i, j \in 1..Len(seq) : seq[i] = seq[j] => i = j}
RelayStores == {StoreAfter(seq) : seq \in ConnectSeqs}

\* the account links the translator reads
RelayUserLinks ==
    {EmptyTable, Upsert(EmptyTable, <<LinkGuild, "d1">>, LinkRow)}

IdleLoop ==
    [pc |-> "idle", n |-> 0, op |-> "none", th |-> NoHash, raw |-> <<>>,
     text |-> <<>>,
     translated |-> FALSE, rows |-> <<>>, idx |-> 0, wh |-> NoHook,
     attempts |-> <<>>, skipped |-> <<>>, id |-> 0]

\* the bot is ready and the admin has run its connect commands; nothing is
\* connected yet
InitRelay ==
    /\ ready = TRUE
    /\ readyCalls = 1
    /\ connections = [h \in Hashes |-> NoConn]
    /\ pc = [c \in Conns |-> "new"]
    /\ token_hash = [c \in Conns |-> NoHash]
    /\ outbox = [c \in Conns |-> <<>>]
    /\ \E st \in RelayStores : mc_links = st.links /\ mc_webhooks = st.hooks
    /\ pending_notifies = <<>>
    /\ pending_mc_msgs = <<>>
    /\ pending_flush_started = FALSE
    /\ flushTasks = 0
    /\ flush_pc = "none"
    /\ flush_idx = 0
    /\ relayed = <<>>
    /\ posted = <<>>
    /\ nextId = 1
    /\ nframes = 0
    /\ readyAt = 0
    /\ now = 1
    /\ guild_crossmod = EmptyTable
    /\ user_links \in RelayUserLinks
    /\ mc_perm_cache = EmptyTable
    /\ link_tokens = EmptyTable
    /\ task = [k \in LoopTasks |-> IdleLoop]
    /\ probe = NoProbe

\* op in {"mc_chat", "mc_event", "mc_mod"} with the ready event set: the
\* handler awaits the relay, which starts after `await _wait_ready()`
RelayBegin(c, op, text) ==
    /\ pc[c] = "open"
    /\ task[RelayTask].pc = "idle"
    /\ task[RelayTask].n < MaxRelays
    /\ RelaysDirectly(ready)
    /\ relayed' = Append(relayed, [id |-> nextId, via |-> "direct"])
    /\ nextId' = nextId + 1
    /\ task' = [task EXCEPT ![RelayTask] =
            [IdleLoop EXCEPT !.pc = IF op = "mc_chat" THEN "r_translate"
                                    ELSE "r_select",
                             !.n = task[RelayTask].n + 1, !.op = op,
                             !.th = token_hash[c], !.raw = text, !.text = text,
                             !.id = nextId]]
    /\ UNCHANGED <<ready, readyCalls, connVars, storeVars, pendingVars,
                   flushVars, posted, nframes, readyAt, permVars, probe>>

\* _relay_mc_to_discord: text = await _apply_mc_mentions_to_discord(...)
RlTranslate ==
    /\ task[RelayTask].pc = "r_translate"
    /\ LET t == task[RelayTask]
       IN  task' = [task EXCEPT ![RelayTask] =
                [t EXCEPT !.pc = "r_select", !.translated = TRUE,
                          !.text = Apply_Mc_Mentions(t.th, t.text, mc_links,
                                                     user_links)]]
    /\ UNCHANGED <<gateVars, permVars, probe>>

\* one iteration of `for th, text in _pending_notifies` up to the call of
\* _notify_bound_channels
FlushNotifyBegin ==
    /\ flush_pc = "notifies"
    /\ flush_idx <= Len(pending_notifies)
    /\ task[NotifyTask].pc = "idle"
    /\ LET e == pending_notifies[flush_idx]
       IN  /\ relayed' = Append(relayed, [id |-> e.id, via |-> "flush"])
           /\ task' = [task EXCEPT ![NotifyTask] =
                [IdleLoop EXCEPT !.pc = "r_select", !.op = "notify",
                                 !.n = task[NotifyTask].n + 1,
                                 !.th = e.th, !.id = e.id]]
    /\ flush_pc' = "notifying"
    /\ UNCHANGED <<ready, readyCalls, connVars, storeVars, pendingVars,
                   pending_flush_started, flushTasks, flush_idx, posted,
                   nextId, nframes, readyAt, permVars, probe>>

\* _notify_bound_channels has returned: the next buffered notification, or
\* the list is rebound to [] and the task ends
FlushNotifyEnd ==
    /\ flush_pc = "notifying"
    /\ task[NotifyTask].pc = "idle"
    /\ IF NextIdx(flush_idx) <= Len(pending_notifies)
       THEN /\ flush_idx' = NextIdx(flush_idx)
            /\ flush_pc' = "notifies"
            /\ UNCHANGED pending_notifies
       ELSE /\ pending_notifies' = <<>>
            /\ flush_idx' = 1
            /\ flush_pc' = IF pending_mc_msgs # <<>> THEN "msgs" ELSE "done"
    /\ UNCHANGED <<ready, readyCalls, connVars, storeVars, pending_mc_msgs,
                   pending_flush_started, flushTasks, sinkVars, nextId, nframes,
                   readyAt, permVars, task, probe>>

\* SELECT guild_id, channel_id FROM mc_links WHERE token_hash=? (the relays:
\* AND status='connected'); without rows the call returns
LoopSelect(k) ==
    /\ task[k].pc = "r_select"
    /\ LET rows == BoundRows(mc_links, task[k].th, task[k].op # "notify")
       IN  task' = [task EXCEPT ![k] =
                [@ EXCEPT !.pc = IF rows = <<>> THEN "idle" ELSE "r_lookup",
                          !.rows = rows, !.idx = 1]]
    /\ UNCHANGED <<gateVars, permVars, probe>>

\* a missing sink kept for the post
SkipsRowNever(wh) == FALSE

\* `if not wh_url: continue`
SkipsRow(wh) == wh = NoHook

\* the loop ended by a failed post
AfterPostStopOnFailure(idx, len, ok) ==
    IF ok /\ NextIdx(idx) <= len THEN "r_lookup" ELSE "idle"

\* after the try block: the next row, or the end of the loop
AfterPost(idx, len, ok) == IF NextIdx(idx) <= len THEN "r_lookup" ELSE "idle"

\* wh_url, thread_id = await _lookup_webhook_for_link(gid, cid); without a
\* sink the row is logged and skipped
LoopLookup(k) ==
    /\ task[k].pc = "r_lookup"
    /\ LET t == task[k]
           wh == Lookup_Webhook(mc_webhooks, t.rows[t.idx])
       IN  task' = [task EXCEPT ![k] =
                IF SkipsRow(wh)
                THEN [t EXCEPT !.pc = AfterPost(t.idx, Len(t.rows), TRUE),
                               !.idx = NextIdx(t.idx),
                               !.skipped = Append(t.skipped, t.rows[t.idx])]
                ELSE [t EXCEPT !.pc = "r_post", !.wh = wh]]
    /\ UNCHANGED <<gateVars, permVars, probe>>

\* await _post_webhook(...) inside try / except Exception: the post arrives
\* or the failure is logged
LoopPost(k, ok) ==
    /\ task[k].pc = "r_post"
    /\ LET t == task[k]
       IN  /\ posted' =
                IF ok THEN Append(posted, [id |-> t.id, hook |-> t.wh.hook,
                                           thread |-> t.wh.thread])
                ELSE posted
           /\ task' = [task EXCEPT ![k] =
                [t EXCEPT !.pc = AfterPost(t.idx, Len(t.rows), ok),
                          !.idx = NextIdx(t.idx),
                          !.attempts = Append(t.attempts,
                                [ch |-> t.rows[t.idx], hook |-> t.wh.hook,
                                 thread |-> t.wh.thread, ok |-> ok,
                                 text |-> t.text])]]
    /\ UNCHANGED <<ready, readyCalls, connVars, storeVars, pendingVars,
                   flushVars, relayed, nextId, nframes, readyAt, permVars,
                   probe>>

NextRelay ==
    \/ \E c \in RelayConns : Accept(c)
    \/ \E c \in RelayConns, frame \in AuthFrames :
            token_hash[c] = NoHash /\ AuthFrame(c, frame)
    \/ \E c \in RelayConns : AuthUpdate(c)
    \/ \E c \in RelayConns : AuthFinish(c)
    \/ FlushWake
    \/ FlushNotifyBegin
    \/ FlushNotifyEnd
    \/ \E c \in RelayConns, text \in RelayTexts : RelayBegin(c, "mc_chat", text)
    \/ \E c \in RelayConns, op \in RelayOps \ {"mc_chat"} :
            RelayBegin(c, op, <<"b", "o">>)
    \/ RlTranslate
    \/ \E k \in LoopTasks : LoopSelect(k)
    \/ \E k \in LoopTasks : LoopLookup(k)
    \/ \E k \in LoopTasks, ok \in BOOLEAN : LoopPost(k, ok)

SpecRelay == InitRelay /\ [][NextRelay]_vars

\* ------------------------------------------------------ claim vocabulary
\* every Link of hash th has the given status
AllStatus(links, th, status) ==
    \A ch \in DOMAIN links : links[ch].token_hash = th => links[ch].status = status

\* some Link of hash th has the given status
SomeStatus(links, th, status) ==
    \E ch \in DOMAIN links : links[ch].token_hash = th /\ links[ch].status = status

\* no ws_handler is between two of its store queries
Quiescent == \A c \in Conns : pc[c] \in {"new", "open", "closed"}

\* the ids held by a queue or a log
IdsOf(q) == {q[i].id : i \in 1..Len(q)}

\* the ids the flush task has replayed, in order
FlushedIds == SelectSeq(relayed, LAMBDA r : r.via = "flush")

NoDuplicates(q) == \A i, j \in 1..Len(q) : q[i].id = q[j].id => i = j

\* auth frames whose token is empty, whitespace-only or missing
BlankAuthFrames ==
    {[has_token |-> FALSE, token |-> <<>>],
     [has_token |-> TRUE, token |-> <<>>],
     [has_token |-> TRUE, token |-> <<" ">>]}

\* ---------------------------------------------------------------- claims

\* C1 (as claimed): when B has authenticated with the hash of the still
\* registered A and is the registered connection, the teardown of A leaves
\* the status of the Links of that hash 'connected'.
C1_StaleTeardownKeepsStatus ==
    [][\A a \in Conns : \A b \in Conns \ {a} :
        ( /\ pc[a] = "open" /\ pc'[a] = "td_fin"
          /\ pc[b] = "open"
          /\ token_hash[b] = token_hash[a]
          /\ connections[token_hash[a]] = b
          /\ SomeStatus(mc_links, token_hash[a], "connected") )
        => AllStatus(mc_links', token_hash[a], "connected")]_vars

\* C2 (as claimed): whenever no handler is between two store queries, a
\* Link is 'connected' if and only if the registry holds its hash.
C2_StatusIffRegistered ==
    Quiescent =>
        \A ch \in DOMAIN mc_links :
            (mc_links[ch].status = "connected")
                <=> (connections[mc_links[ch].token_hash] # NoConn)

\* C3: an accepted auth makes its socket the registry entry of its hash; a
\* teardown pops the entry of its hash only if it is its own socket; so an
\* entry goes away only by the teardown of the socket it holds and is
\* replaced only by the auth of the socket that takes it over.
C3_ReplaceAndGuardedPop ==
    [][ /\ \A c \in Conns :
            (pc[c] = "open" /\ pc'[c] = "auth_upd")
                => connections'[token_hash'[c]] = c
        /\ \A c \in Conns :
            (pc[c] = "td_fin" /\ pc'[c] = "closed")
                => connections' =
                        IF connections[token_hash[c]] = c
                        THEN [connections EXCEPT ![token_hash[c]] = NoConn]
                        ELSE connections
        /\ \A h \in Hashes :
            (connections[h] # NoConn /\ connections'[h] # connections[h])
                => IF connections'[h] = NoConn
                   THEN pc[connections[h]] = "td_fin"
                            /\ pc'[connections[h]] = "closed"
                   ELSE pc'[connections'[h]] = "auth_upd"
      ]_vars

\* C3 witness: A and B authenticated with one hash, A was torn down after
\* B's auth, and B is still the registered socket.
C3_Witness ==
    \E a \in Conns : \E b \in Conns \ {a} :
        /\ pc[a] = "closed"
        /\ token_hash[a] # NoHash
        /\ token_hash[b] = token_hash[a]
        /\ connections[token_hash[a]] = b
        /\ Len(pending_notifies) = 3
        /\ pending_notifies[2].kind = "connect"
        /\ pending_notifies[3].kind = "disconnect"

\* C4 (as claimed): a Link of the connection's hash is 'connected' when
\* the auth handling completes and 'disconnected' when the teardown of that
\* connection completes.  The auth half is read for a hash no other
\* connection has used, so that no stale teardown can be what breaks it.
C4_StatusAtCompletion ==
    [][\A c \in Conns :
        /\ ( /\ pc[c] = "auth_fin" /\ pc'[c] = "open"
             /\ \A b \in Conns \ {c} : token_hash[b] # token_hash[c] )
            => AllStatus(mc_links', token_hash[c], "connected")
        /\ (pc[c] = "td_fin" /\ pc'[c] = "closed")
            => AllStatus(mc_links', token_hash[c], "disconnected")
      ]_vars

\* C4 (amended): the store update of an auth leaves every Link of its hash
\* 'connected', the store update of a teardown leaves every Link of the
\* connection's hash 'disconnected', and no step that enqueues, flushes or
\* replays a pending entry changes a Link.
C4_StatusAtUpdate ==
    [][ /\ \A c \in Conns :
            (pc[c] = "auth_upd" /\ pc'[c] = "auth_fin")
                => AllStatus(mc_links', token_hash[c], "connected")
        /\ \A c \in Conns :
            (pc[c] = "open" /\ pc'[c] = "td_fin")
                => AllStatus(mc_links', token_hash[c], "disconnected")
        /\ ( \/ pending_notifies' # pending_notifies
             \/ pending_mc_msgs' # pending_mc_msgs
             \/ relayed' # relayed
             \/ flush_pc' # flush_pc )
            => mc_links' = mc_links
      ]_vars

\* C4 witness: a teardown has just written 'disconnected' to a Link whose
\* auth had written 'connected', with entries waiting in both queues.
C4_Witness ==
    \E c \in Conns :
        /\ pc[c] = "td_fin"
        /\ SomeStatus(mc_links, token_hash[c], "disconnected")
        /\ \E i \in 1..Len(pending_notifies) :
                pending_notifies[i].th = token_hash[c]
                    /\ pending_notifies[i].kind = "connect"
        /\ pending_mc_msgs # <<>>

\* C5: an auth frame with an empty, whitespace-only or missing token is
\* answered with an auth failure on its socket and changes neither the
\* registry nor a Link nor a pending queue; the connection stays open and
\* its authentication state is what it was.
C5_BlankTokenRejected ==
    [][\A c \in Conns, f \in BlankAuthFrames :
        AuthFrame(c, f) =>
            /\ outbox'[c] = Append(outbox[c], "auth_fail")
            /\ connections' = connections
            /\ mc_links' = mc_links
            /\ mc_webhooks' = mc_webhooks
            /\ pending_notifies' = pending_notifies
            /\ pending_mc_msgs' = pending_mc_msgs
            /\ pc'[c] = "open"
            /\ token_hash' = token_hash
      ]_vars

\* C5 witness: an open, unauthenticated connection whose last reply is the
\* auth failure, with an empty registry.
C5_Witness ==
    \E c \in Conns :
        /\ pc[c] = "open"
        /\ token_hash[c] = NoHash
        /\ outbox[c] # <<>>
        /\ outbox[c][Len(outbox[c])] = "auth_fail"
        /\ \A h \in Hashes : connections[h] = NoConn

\* C6 (as claimed): an auth frame whose non-empty token matches no Link is
\* answered with an auth failure and adds no registry entry.
C6_InvalidTokenRejected ==
    [][\A c \in Conns, f \in AuthFrames \ BlankAuthFrames :
        ( /\ AuthFrame(c, f)
          /\ \A ch \in DOMAIN mc_links :
                mc_links[ch].token_hash # token_hash_cmd(Strip(f.token)) )
        => /\ outbox'[c] = Append(outbox[c], "auth_fail")
           /\ connections' = connections
      ]_vars

\* C7: before readiness nothing has been relayed or posted, and every
\* arrival so far (chat, event, moderation message, notification) sits in
\* a pending queue.
C7_NothingPostedBeforeReady ==
    ~ready =>
        /\ posted = <<>>
        /\ relayed = <<>>
        /\ IdsOf(pending_notifies) \cup IdsOf(pending_mc_msgs) = 1..(nextId - 1)

\* C7 witness: not ready, with a notification and a relay event buffered.
C7_Witness ==
    /\ ~ready
    /\ pending_notifies # <<>>
    /\ pending_mc_msgs # <<>>

\* C8: the flush task is created at most once.
C8_FlushTaskAtMostOnce == flushTasks <= 1

\* C8 witness: two connections have completed an auth and one task exists.
C8_Witness ==
    /\ flushTasks = 1
    /\ \A c \in Conns : pc[c] = "open" /\ token_hash[c] # NoHash

EarlyIds(q) ==
    {q[i].id : i \in {k \in 1..Len(q) : q[k].th # NoHash /\ q[k].id < readyAt}}

UnreplayedEarly ==
    {e \in EarlyIds(pending_notifies) \cup EarlyIds(pending_mc_msgs) :
        e \notin IdsOf(FlushedIds)}

C13_NoAppendAfterReady ==
    [][ready => /\ Len(pending_notifies') <= Len(pending_notifies)
                /\ Len(pending_mc_msgs') <= Len(pending_mc_msgs)]_vars

\* the member whose profile has been computed, and that profile
Resolved == probe.stage \in {"resolved", "checked"}

\* C16: for every permission bitset, can_kick = kick or administrator,
\* can_ban = ban or administrator, can_timeout = moderate or administrator,
\* is_staff = any of those three, manage-guild, manage-roles, manage-messages
\* or administrator; administrator alone makes all four true.
C16_Capabilities ==
    Resolved =>
        LET p == probe.member.perms
            f == probe.profile
            admin == "administrator" \in p
        IN  /\ {f.can_kick, f.can_ban, f.can_timeout, f.is_staff} \subseteq {0, 1}
            /\ f.can_kick = 1 <=> ("kick_members" \in p \/ admin)
            /\ f.can_ban = 1 <=> ("ban_members" \in p \/ admin)
            /\ f.can_timeout = 1 <=> ("moderate_members" \in p \/ admin)
            /\ f.is_staff = 1 <=>
                    \/ f.can_kick = 1 \/ f.can_ban = 1 \/ f.can_timeout = 1
                    \/ "manage_guild" \in p \/ "manage_roles" \in p
                    \/ "manage_messages" \in p \/ admin
            /\ p = {"administrator"} =>
                    f.can_kick + f.can_ban + f.can_timeout + f.is_staff = 4

\* a member with administrator only has been resolved, all four true
C16_Witness ==
    /\ Resolved
    /\ probe.member.perms = {"administrator"}
    /\ probe.profile.can_kick = 1 /\ probe.profile.can_ban = 1
    /\ probe.profile.can_timeout = 1 /\ probe.profile.is_staff = 1

\* r is the role of highest position among rs
TopOf(rs, r) ==
    r \in rs /\ \A q \in rs : RoleInfo(q).position <= RoleInfo(r).position

\* the number an upper-case hexadecimal string denotes
RECURSIVE HexValue(_)
HexValue(s) ==
    IF s = <<>> THEN 0
    ELSE LET d == s[Len(s)]
             v == CHOOSE n \in 0..15 : HexDigit(n) = d
         IN  16 * HexValue(SubSeq(s, 1, Len(s) - 1)) + v

\* C17: color is the hex of the highest-ordinal role with a non-default
\* color, none if no role is colored; prefix is the bracketed name of the
\* highest-ordinal hoisted role, else of the color role, else of the
\* highest-ordinal role, else none when the member holds no role.
C17_Cosmetics ==
    Resolved =>
        LET held == probe.member.roles \ {"everyone"}
            colored == {r \in held : RoleInfo(r).colour # 0}
            hoisted == {r \in held : RoleInfo(r).hoist}
            f == probe.profile
        IN  /\ colored = {} => f.color_hex = None
            /\ colored # {} =>
                    \E r \in held :
                        /\ TopOf(colored, r)
                        /\ Len(f.color_hex) = 7
                        /\ f.color_hex[1] = "#"
                        /\ HexValue(Tail(f.color_hex)) = RoleInfo(r).colour
            /\ held = {} => f.prefix = None
            /\ held # {} =>
                    \E r \in held :
                        /\ f.prefix = <<"[">> \o RoleInfo(r).name \o <<"]">>
                        /\ hoisted # {} => TopOf(hoisted, r)
                        /\ (hoisted = {} /\ colored # {}) => TopOf(colored, r)
                        /\ (hoisted = {} /\ colored = {}) => TopOf(held, r)

\* roles A (hoisted, uncolored) and B (not hoisted, colored, above A):
\* the prefix comes from A, the color from B
C17_Witness ==
    /\ Resolved
    /\ probe.member.roles = {"everyone", "A", "B"}
    /\ probe.profile.prefix = <<"[", "A", "]">>
    /\ probe.profile.color_hex = <<"#", "0", "0", "0", "0", "F", "F">>

\* C18: for every member, the profile the moderation-bridge check computes
\* and caches equals the profile permission resolution computes, and the
\* chat forwarder derives the same prefix and color.
C18_BridgeProfileEqual ==
    probe.stage = "checked" =>
        /\ probe.bridge = probe.profile
        /\ probe.fwd = <<probe.profile.prefix, probe.profile.color_hex>>

\* the capability fields of a profile, a cache row or a reply
CapFields == {"can_kick", "can_ban", "can_timeout", "is_staff"}

\* the fields of a reply are those of a cache row: the four capabilities,
\* and each cosmetic the row has a value for under its reply name
CarriesRow(fields, row) ==
    /\ DOMAIN fields \subseteq CapFields \cup {"prefix", "color"}
    /\ \A f \in CapFields : f \in DOMAIN fields /\ fields[f] = row[f]
    /\ IF row.prefix = None THEN "prefix" \notin DOMAIN fields
       ELSE "prefix" \in DOMAIN fields /\ fields["prefix"] = row.prefix
    /\ IF row.color_hex = None THEN "color" \notin DOMAIN fields
       ELSE "color" \in DOMAIN fields /\ fields["color"] = row.color_hex

\* the last frame sent on a connection
LastSent(box) == box[Len(box)]

\* C14: when live resolution yields no profile, the reply carries exactly
\* the fields of the most recent cached snapshot of the account (of any
\* guild) if there is one, and otherwise only the discriminator and the id.
C14_FallbackReply ==
    [][\A c \in PermConns :
        (task[c].pc = "pq_cache" /\ task'[c].pc = "idle") =>
            LET rows == {k \in DOMAIN mc_perm_cache : k[2] = task[c].uuid}
                reply == LastSent(outbox'[c])
            IN  /\ outbox'[c] = Append(outbox[c], reply)
                /\ reply.op = "mc_permset"
                /\ reply.uuid = task[c].uuid
                /\ IF rows = {} THEN DOMAIN reply.fields = {}
                   ELSE \E k \in rows :
                          /\ \A q \in rows : mc_perm_cache[q].last_sync
                                                <= mc_perm_cache[k].last_sync
                          /\ CarriesRow(reply.fields, mc_perm_cache[k])]_vars

\* a query was answered from the cache while the account had two snapshots
\* of different age and content
C14_Witness ==
    \E c \in PermConns :
        /\ task[c].pc = "idle" /\ task[c].via = "cache"
        /\ \E k, q \in RowsOfUuid(mc_perm_cache, <<"u">>) :
            /\ mc_perm_cache[k].last_sync < mc_perm_cache[q].last_sync
            /\ ProfileOfRow(mc_perm_cache[k]) # ProfileOfRow(mc_perm_cache[q])
            /\ CarriesRow(LastSent(outbox[c]).fields, mc_perm_cache[q])

\* a permission-set reply to the query data is sent on c in this step
RepliesTo(c, data, uuid) ==
    /\ Len(outbox'[c]) = Len(outbox[c]) + 1
    /\ outbox'[c] = Append(outbox[c], LastSent(outbox'[c]))
    /\ LastSent(outbox'[c]).op = "mc_permset"
    /\ LastSent(outbox'[c]).uuid = uuid
    /\ \A f \in DOMAIN LastSent(outbox'[c]).fields :
            IF f \in CapFields THEN LastSent(outbox'[c]).fields[f] \in {0, 1}
            ELSE LastSent(outbox'[c]).fields[f] # None

C19_LastSyncMonotone ==
    [][\A k \in DOMAIN mc_perm_cache :
        /\ k \in DOMAIN mc_perm_cache'
        /\ mc_perm_cache'[k].last_sync >= mc_perm_cache[k].last_sync]_vars

\* the entry of (g1, u) was written by a permission query and then
\* rewritten, later, by a moderation check
C19_Witness ==
    /\ DOMAIN user_links = {<<"g1", DiscordUser>>}
    /\ \E c \in PermConns : task[c].pc = "idle" /\ task[c].via = "live"
    /\ task[BridgeTask].pc = "idle"
    /\ <<"g1", <<"u">>>> \in DOMAIN mc_perm_cache
    /\ mc_perm_cache[<<"g1", <<"u">>>>].last_sync = MaxClock
    /\ mc_perm_cache[<<"g1", <<"u">>>>].can_kick = 1
    /\ mc_perm_cache[<<"g1", <<"u">>>>].is_staff = 0

\* command u creates its account link in this step
CreatesLink(u) == task[u].pc = "lk_insert" /\ task'[u].pc = "lk_mark"

\* C20 as stated: once a command has consumed a code, marking its LinkToken
\* used, no linking command issued later with that code creates an account
\* link, whatever link-request frames were received.
C20_UsedCodeNeverLinks ==
    [][\A u \in LinkUsers : CreatesLink(u) => ~task[u].late]_vars

\* C20, amended: a command creates an account link only from a LinkToken
\* row it read as unused, it reads the row as the store holds it, and a used
\* row becomes unused again only by a link-request frame with its code.
C20_UsedRowNeverLinks ==
    [][/\ \A u \in LinkUsers :
            /\ CreatesLink(u) => task[u].row.used = 0
            /\ (task[u].pc = "lk_select" /\ task'[u].pc = "lk_insert")
                    => task'[u].row = link_tokens[task[u].token]
       /\ \A t \in DOMAIN link_tokens :
            (link_tokens[t].used = 1 /\ link_tokens' # link_tokens)
                => \/ t \in DOMAIN link_tokens' /\ link_tokens'[t].used = 1
                   \/ \E c \in PermConns, data \in LinkFrames :
                        LinkRequest(c, data) /\ CodeField(data) = t]_vars

\* a command read a used LinkToken and was refused, with no link made for
\* its user
C20_Witness ==
    \E u \in LinkUsers :
        /\ task[u].pc = "idle" /\ task[u].result = "used"
        /\ <<LinkGuild, u>> \notin DOMAIN user_links
        /\ link_tokens[<<"k">>].used = 1

\* the success acks a connection was sent: the LinkTokens issued on it
IssuedOn(box) ==
    SelectSeq(box, LAMBDA m : m.op = "mc_link_ack" /\ m.ok)

\* C21: a LinkToken is consumed at most once: while a code was issued a
\* single time, at most one linking command has created an account link
\* with it, however the commands interleave.
C21_TokenConsumedOnce ==
    (\A c \in PermConns : Len(IssuedOn(outbox[c])) <= 1)
        => Cardinality(DOMAIN user_links) <= 1

\* C22: a link-request frame whose code or name is missing, empty or blank
\* gets a failure ack and leaves the LinkTokens as they are; any other one
\* stores the LinkToken of its code as unused, replacing the one there was,
\* touches no other LinkToken, and gets a success ack.
C22_LinkRequestEffect ==
    [][\A c \in PermConns, data \in LinkFrames :
        LinkRequest(c, data) =>
            LET blankCode == ~data.has_code \/ Strip(data.code) = <<>>
                blankName == ~data.has_name \/ Strip(data.name) = <<>>
                ack == LastSent(outbox'[c])
            IN  /\ outbox'[c] = Append(outbox[c], ack)
                /\ ack.op = "mc_link_ack"
                /\ IF blankCode \/ blankName
                   THEN ack.ok = FALSE /\ link_tokens' = link_tokens
                   ELSE /\ ack.ok = TRUE
                        /\ DOMAIN link_tokens' =
                                DOMAIN link_tokens \cup {Strip(data.code)}
                        /\ link_tokens'[Strip(data.code)].used = 0
                        /\ link_tokens'[Strip(data.code)].mc_name
                                = Strip(data.name)
                        /\ \A t \in DOMAIN link_tokens \ {Strip(data.code)} :
                                link_tokens'[t] = link_tokens[t]]_vars

\* a code that a command had consumed was issued again and is unused, and a
\* frame without code or name was refused
C22_Witness ==
    /\ \E u \in LinkUsers :
        /\ task[u].pc = "idle" /\ task[u].result = "linked"
        /\ task[u].token \in DOMAIN link_tokens
        /\ link_tokens[task[u].token].used = 0
    /\ \E c \in PermConns : \E i \in 1..Len(outbox[c]) : ~outbox[c][i].ok

\* the frames written to the sockets so far
WrittenTo(boxes) == Len(boxes["c1"]) + Len(boxes["c2"])

\* C23: the senders return the number of sockets whose write succeeded: a
\* failed write is not counted and does not end the call before its last
\* row; without a connected Link for the channel they return 0 and write
\* nothing.
C23_SendersCountWrites ==
    [][/\ \A kind \in SendKinds, channel \in SendChannels :
            SendStart(kind, channel)
                => /\ task'[SendTask].delivered = 0
                   /\ outbox' = outbox
                   /\ ConnectedRows(mc_links, channel) = <<>>
                        => task'[SendTask].pc = "idle"
       /\ \A ok \in BOOLEAN :
            SendWrite(ok)
                => /\ task'[SendTask].delivered - task[SendTask].delivered
                        = WrittenTo(outbox') - WrittenTo(outbox)
                   /\ task'[SendTask].pc = "idle"
                        <=> task[SendTask].idx = Len(task[SendTask].rows)]_vars

\* a call whose write raised has returned 0, after a call that wrote to one
\* socket and returned 1: the only frames written are auth_ok and a payload
C23_Witness ==
    /\ task[SendTask].pc = "idle"
    /\ task[SendTask].sid = 2
    /\ task[SendTask].failed = 1
    /\ task[SendTask].delivered = 0
    /\ WrittenTo(outbox) = 2
    /\ \E c \in Conns : Len(outbox[c]) = 2 /\ outbox[c][2] \in SendKinds

\* the rows of a loop that ended in a post, successful or not
RECURSIVE TimesIn(_, _)
TimesIn(seq, x) ==
    IF seq = <<>> THEN 0
    ELSE (IF Head(seq) = x THEN 1 ELSE 0) + TimesIn(Tail(seq), x)

AttemptChannels(t) == [i \in 1..Len(t.attempts) |-> t.attempts[i].ch]

\* a loop that has returned
Returned(t) == t.pc = "idle" /\ t.n > 0

\* C24: a chat frame handled after readiness on an authenticated socket is
\* delivered once to each channel bound to its hash by a connected Link: the
\* sink of each such channel is resolved once, one post is made where a sink
\* resolves and none where it does not, no other channel is posted to, and
\* every post carries the text as translated before the first sink was
\* resolved.
C24_OneAttemptPerBoundChannel ==
    LET t == task[RelayTask]
    IN  (t.op = "mc_chat" /\ t.th # NoHash) =>
            /\ (t.pc \in {"r_lookup", "r_post"} \/ t.attempts # <<>>
                    \/ t.skipped # <<>>) => t.translated
            /\ \A i \in 1..Len(t.attempts) :
                    t.attempts[i].text =
                        Apply_Mc_Mentions(t.th, t.raw, mc_links, user_links)
            /\ Returned(t) =>
                    \A ch \in Channels :
                        LET bound == /\ ch \in DOMAIN mc_links
                                     /\ mc_links[ch].token_hash = t.th
                                     /\ mc_links[ch].status = "connected"
                            sink == Lookup_Webhook(mc_webhooks, ch) # NoHook
                        IN  /\ TimesIn(AttemptChannels(t), ch)
                                + TimesIn(t.skipped, ch)
                                    = IF bound THEN 1 ELSE 0
                            /\ TimesIn(AttemptChannels(t), ch)
                                    = IF bound /\ sink THEN 1 ELSE 0

\* a chat with a mention was posted to one thread with the mention resolved
\* and skipped for the other thread, whose sink is gone
C24_Witness ==
    LET t == task[RelayTask]
    IN  /\ Returned(t)
        /\ t.op = "mc_chat"
        /\ t.skipped = <<"th1">>
        /\ Len(t.attempts) = 2
        /\ t.attempts[1].ch = "ch1"
        /\ t.attempts[2].ch = "th2"
        /\ t.attempts[2].text = <<"<@d1>">>

\* C25: in each relay loop (chat, event, moderation, notification) a missing
\* sink or a failed post for one row never ends the loop: while it runs the
\* rows before the current one have each been posted to or skipped, and
\* when it has returned every selected row has been handled exactly once.
C25_FailureDoesNotBlockOthers ==
    \A k \in LoopTasks :
        LET t == task[k]
            handled == Len(t.attempts) + Len(t.skipped)
        IN  /\ t.pc \in {"r_lookup", "r_post"} => handled = t.idx - 1
            /\ Returned(t) =>
                /\ handled = Len(t.rows)
                /\ \A i \in 1..Len(t.rows) :
                        TimesIn(AttemptChannels(t), t.rows[i])
                            + TimesIn(t.skipped, t.rows[i]) = 1

\* a notification and a moderation message whose first post failed and whose
\* second channel had no sink both reached the last channel
C25_Witness ==
    /\ Returned(task[NotifyTask])
    /\ Len(task[NotifyTask].attempts) = 2
    /\ ~task[NotifyTask].attempts[1].ok
    /\ task[NotifyTask].attempts[2].ok
    /\ Returned(task[RelayTask])
    /\ task[RelayTask].op = "mc_mod"
    /\ task[RelayTask].skipped = <<"th1">>
    /\ Len(task[RelayTask].attempts) = 2
    /\ ~task[RelayTask].attempts[1].ok
    /\ task[RelayTask].attempts[2].ch = "th2"
    /\ task[RelayTask].attempts[2].ok

\* C26: a frame whose discriminator is none of the known kinds is ignored:
\* the socket stays where it was, nothing is sent, and the registry, the
\* Link rows and the pending queues are unchanged.
C26_UnknownFrameIgnored ==
    [][\A c \in Conns, shape \in FrameShapes :
            OtherFrame(c, shape)
                => /\ pc' = pc
                   /\ outbox' = outbox
                   /\ connections' = connections
                   /\ mc_links' = mc_links
                   /\ pendingVars' = pendingVars]_vars

\* C27: a text frame that does not parse is answered with the bad_json
\* error on the same socket and nothing else: the socket stays in its read
\* loop, and no Link status, registry entry or pending queue changes.
C27_BadJsonAnswered ==
    [][\A c \in Conns :
            BadJsonFrame(c)
                => /\ outbox'[c] = Append(outbox[c], "error_bad_json")
                   /\ \A d \in Conns \ {c} : outbox'[d] = outbox[d]
                   /\ pc' = pc /\ pc[c] = "open"
                   /\ token_hash' = token_hash
                   /\ connections' = connections
                   /\ storeVars' = storeVars
                   /\ pendingVars' = pendingVars]_vars

\* a socket answered a frame that does not parse and then read and accepted
\* an auth frame: its Link is connected and it is still in its read loop
C27_Witness ==
    \E c \in Conns :
        /\ outbox[c] = <<"error_bad_json", "auth_ok">>
        /\ pc[c] = "open"
        /\ connections[token_hash[c]] = c
        /\ mc_links["ch1"].status = "connected"

\* C28: the resolver returns the endpoint of the row stored for the linked
\* id itself when that row has one; otherwise, when the id is the thread
\* recorded on a parent's row that has an endpoint, that parent's endpoint
\* with the thread id; otherwise no endpoint. It returns for every table.
C28_ResolverOrder ==
    probe.stage = "hooked" =>
        LET h == mc_webhooks
            id == probe.id
            r == probe.result
            exact == id \in DOMAIN h /\ h[id].webhook_url
            parents == {p \in DOMAIN h : h[p].thread_id = id /\ h[p].webhook_url}
        IN  /\ exact => r.hook = id
            /\ (~exact /\ parents # {}) => r.hook \in parents /\ r.thread = id
            /\ (~exact /\ parents = {}) => r = NoHook

\* a thread id resolved through its parent's row, next to a parent row that
\* has no endpoint
C28_Witness ==
    /\ probe.stage = "hooked"
    /\ probe.id = "th1"
    /\ probe.result = [hook |-> "ch2", thread |-> "th1"]
    /\ "ch1" \in DOMAIN mc_webhooks
    /\ ~mc_webhooks["ch1"].webhook_url

\* the members that bear a lower-cased name, by their place in the guild's
\* member list, and the first of them
Bearers(n) == {i \in 1..Len(GuildMembers) : n \in Candidates(GuildMembers[i])}
FirstBearer(n) ==
    GuildMembers[CHOOSE i \in Bearers(n) : \A j \in Bearers(n) : i <= j]

\* the token names a member whose first bearer has an account link
Resolves(token) ==
    /\ Bearers(Lower(token)) # {}
    /\ <<LinkGuild, FirstBearer(Lower(token))>> \in DOMAIN user_links

RECURSIVE Expected(_)
Expected(segs) ==
    IF segs = <<>> THEN <<>>
    ELSE (IF Head(segs).lit THEN Head(segs).s
          ELSE IF Resolves(Head(segs).s)
               THEN <<MentionOf(FirstBearer(Lower(Head(segs).s)))>>
               ELSE <<"@">> \o Head(segs).s)
         \o Expected(Tail(segs))

RawTokens ==
    TokenInputs \cup ConnectTokens
        \cup {Strip(t) : t \in TokenInputs \cup ConnectTokens}

\* the frames the handler sends in answer to auth frames
AuthReplies == {"auth_ok", "auth_fail"}

\* C30: no Link row holds a raw token: its token_hash column is a sha256
\* digest and the row has no other column a token could be in; and no frame
\* sent on a socket carries a token or a digest: the answers to auth frames
\* are the bare ok and failure replies.
C30_TokenNeverStoredOrSent ==
    /\ \A ch \in DOMAIN mc_links :
            /\ DOMAIN mc_links[ch] = {"token_hash", "status"}
            /\ mc_links[ch].token_hash \notin RawTokens
            /\ Head(mc_links[ch].token_hash) = "sha256"
            /\ mc_links[ch].status \in {"pending", "connected", "disconnected"}
    /\ \A c \in Conns : \A i \in 1..Len(outbox[c]) : outbox[c][i] \in AuthReplies

\* a Link made with token a is connected by a socket that presented that
\* token and was answered
C30_Witness ==
    /\ "ch1" \in DOMAIN mc_links
    /\ mc_links["ch1"].status = "connected"
    /\ \E c \in Conns :
            /\ token_hash[c] = mc_links["ch1"].token_hash
            /\ outbox[c] = <<"auth_ok">>

\* the last entry of a queue that grew by one
Enqueued(q, q2, th, kind) ==
    /\ Len(q2) = Len(q) + 1
    /\ SubSeq(q2, 1, Len(q)) = q
    /\ q2[Len(q2)].th = th
    /\ q2[Len(q2)].kind = kind

\* C31: a handler that accepted an auth frame goes on, without another way
\* out, to queue one connect notification for its hash; a handler that
\* leaves its read loop with a hash goes on to queue one disconnect
\* notification for it; a handler that leaves its read loop without ever
\* having authenticated queues nothing and changes no Link.
C31_NotificationsPerAuthAndTeardown ==
    [][\A c \in Conns :
        /\ pc[c] = "auth_upd" => pc'[c] \in {"auth_upd", "auth_fin"}
        /\ (pc[c] = "auth_fin" /\ pc'[c] # "auth_fin")
            => /\ pc'[c] = "open"
               /\ token_hash[c] # NoHash
               /\ Enqueued(pending_notifies, pending_notifies',
                           token_hash[c], "connect")
        /\ (pc[c] = "td_fin" /\ pc'[c] # "td_fin")
            => /\ pc'[c] = "closed"
               /\ token_hash[c] # NoHash
               /\ Enqueued(pending_notifies, pending_notifies',
                           token_hash[c], "disconnect")
        /\ (pc[c] = "open" /\ pc'[c] \in {"td_fin", "closed"})
            => IF token_hash[c] = NoHash
               THEN /\ pc'[c] = "closed"
                    /\ pending_notifies' = pending_notifies
                    /\ mc_links' = mc_links
               ELSE pc'[c] = "td_fin"]_vars

\* before readiness the queue holds the connect and the disconnect
\* notification of a socket that authenticated and closed, and nothing of
\* the socket that closed without authenticating
C31_Witness ==
    /\ ~ready
    /\ Len(pending_notifies) = 2
    /\ pending_notifies[1].kind = "connect"
    /\ pending_notifies[2].kind = "disconnect"
    /\ pending_notifies[1].th = pending_notifies[2].th
    /\ \A c \in Conns : pc[c] = "closed"
    /\ \E c \in Conns : token_hash[c] = NoHash

\* the guild of the link row a resolution picked has cross moderation
\* switched off
PickedGuildDisabled(c) ==
    /\ task[c].pc = "pq_toggle"
    /\ task[c].guild \in DOMAIN guild_crossmod
    /\ guild_crossmod[task[c].guild] = 0

\* C32: a resolution that finds cross moderation switched off for the guild
\* of the link row it picked ends without a profile and without touching
\* the cache, and the handler then answers from the newest snapshot of the
\* account, whichever guild it was written for.
C32_DisabledGuildFallsBack ==
    [][\A c \in PermConns :
        /\ (PickedGuildDisabled(c) /\ task'[c] # task[c])
            => /\ task'[c].pc = "pq_cache"
               /\ task'[c].uuid = task[c].uuid
               /\ mc_perm_cache' = mc_perm_cache
               /\ outbox' = outbox
        /\ (task[c].pc = "pq_cache" /\ task'[c] # task[c])
            => /\ task'[c].pc = "idle"
               /\ mc_perm_cache' = mc_perm_cache
               /\ Len(outbox'[c]) = Len(outbox[c]) + 1
               /\ LastSent(outbox'[c]).uuid = task[c].uuid
               /\ LET rows == RowsOfUuid(mc_perm_cache, task[c].uuid)
                  IN  IF rows = {}
                      THEN LastSent(outbox'[c]).fields = EmptyTable
                      ELSE \E k \in rows :
                             /\ \A q \in rows \ {k} :
                                    mc_perm_cache[k].last_sync
                                        >= mc_perm_cache[q].last_sync
                             /\ LastSent(outbox'[c]).fields
                                    = ReplyFields(ProfileOfRow(mc_perm_cache[k]))]_vars

\* the account is linked in g1 and g2, g1 has cross moderation switched
\* off, the only snapshot is the one written for g2, and a resolution that
\* picked the g1 link is about to answer from the cache
C32_Witness ==
    \E c \in PermConns :
        /\ task[c].pc = "pq_cache"
        /\ "guild" \in DOMAIN task[c]
        /\ task[c].guild = "g1"
        /\ "g1" \in DOMAIN guild_crossmod /\ guild_crossmod["g1"] = 0
        /\ DOMAIN mc_perm_cache = {<<"g2", <<"u">>>>}

\* C33 (as claimed), in its finite form: the flush task runs once, so
\* whatever is to be replayed has been replayed when it has ended; an entry
\* that sits in a pending queue after the task has ended and was not
\* replayed is never replayed.
C33_NothingLeftWhenFlushEnded ==
    flush_pc = "done"
        => \A e \in IdsOf(pending_notifies) \cup IdsOf(pending_mc_msgs) :
                e \in IdsOf(relayed)

\* the hashes the registry holds socket c under
RegisteredUnder(c) == {h \in DOMAIN connections : connections[h] = c}

\* C34 (as claimed): a socket is registered under at most one hash, and
\* once its handler has ended no registry entry refers to it.
C34_OneHashPerSocketNoneAfterTeardown ==
    \A c \in Conns :
        /\ Cardinality(RegisteredUnder(c)) <= 1
        /\ pc[c] = "closed" => RegisteredUnder(c) = {}

\* the socket registered for the hash of the Link bound to a channel
RegisteredFor(channel) ==
    IF channel \in DOMAIN mc_links
    THEN SocketOf(connections, mc_links[channel].token_hash)
    ELSE NoConn

\* C35 (as claimed): while no handler is in the middle of an auth or a
\* teardown, a sender called for a channel goes on to write exactly when a
\* socket is registered for the hash of the channel's Link, and what a
\* sender writes goes to the socket registered for the hash of the row it
\* read and to no other.
C35_SendersWriteIffRegistered ==
    [][/\ \A kind \in SendKinds, channel \in SendChannels :
            (Quiescent /\ SendStart(kind, channel))
                => (task'[SendTask].pc = "s_loop"
                        <=> RegisteredFor(channel) # NoConn)
       /\ (task[SendTask].pc = "s_loop" /\ task' # task)
            => \A c \in Conns :
                outbox'[c] # outbox[c]
                    => c = SocketOf(connections,
                                    task[SendTask].rows[task[SendTask].idx])]_vars

\* C36: a query that finds no live profile, sent next after a query for the
\* same account that was resolved live, is answered with the fields of that
\* earlier reply, when no moderation check has written the cache and the
\* snapshot the earlier query wrote is newer than the account's others.
C36_CachedReplyRepeatsLiveReply ==
    [][\A c \in PermConns :
        (/\ task[c].pc = "pq_cache" /\ task'[c].pc = "idle"
         /\ task[c].prev = "live"
         /\ task[BridgeTask] = IdleTask
         /\ Cardinality(LatestRows(mc_perm_cache, task[c].uuid)) = 1)
            => /\ Len(outbox'[c]) = Len(outbox[c]) + 1
               /\ LastSent(outbox[c]).uuid = task[c].uuid
               /\ LastSent(outbox'[c]) = LastSent(outbox[c])]_vars

\* a live reply with a prefix and a color was followed by a reply from the
\* cache with the same fields, while the account had an older snapshot of
\* another guild with other content
C36_Witness ==
    \E c \in PermConns :
        /\ task[c].pc = "idle" /\ task[c].via = "cache"
        /\ task[c].prev = "live"
        /\ task[BridgeTask] = IdleTask
        /\ Len(outbox[c]) = 3
        /\ outbox[c][2] = outbox[c][3]
        /\ outbox[c][1] # outbox[c][2]
        /\ "prefix" \in DOMAIN outbox[c][3].fields
        /\ Cardinality(RowsOfUuid(mc_perm_cache, <<"u">>)) = 2

\* C37 (as claimed): a chat, event or moderation frame on a connection that
\* has not authenticated changes no table, no pending queue, starts no relay
\* and leaves the connection open.
C37_UnauthenticatedFrameNotProcessed ==
    [][\A c \in Conns, op \in RelayOps :
        (token_hash[c] = NoHash /\ RelayFrame(c, op))
            => /\ pending_mc_msgs' = pending_mc_msgs
               /\ pending_notifies' = pending_notifies
               /\ relayed' = relayed
               /\ posted' = posted
               /\ mc_links' = mc_links
               /\ pc'[c] = "open"]_vars

\* the sink that routes to a linked entity: the parent's endpoint, with the
\* thread's id for a thread and none for a channel
SinkOf(channel) ==
    [hook |-> ParentOf(channel),
     thread |-> IF channel \in Threads THEN channel ELSE NoThread]

\* C38 (as claimed): whatever connect and disconnect commands were run,
\* every Link in the store resolves to the sink of its own channel or
\* thread.
C38_EveryLinkResolvesToItsEntity ==
    \A channel \in DOMAIN mc_links :
        Lookup_Webhook(mc_webhooks, channel) = SinkOf(channel)

\* the server task exists and has not ended
ServerRunning(t) == t[ServerTask].pc \in {"scheduled", "listening"}

\* C39: the server listens, and a connection is accepted, only when
\* readiness is set; a ready event never replaces a server task that has
\* not ended; readiness once set stays set.
C39_ServerAfterReadyStartedOnce ==
    [][/\ task'[ServerTask].pc = "listening" => ready'
       /\ \A c \in Conns : pc'[c] # "new" => ready' /\ ready
       /\ ServerRunning(task)
            => /\ task'[ServerTask].starts = task[ServerTask].starts
               /\ task'[ServerTask].pc # "none"
       /\ ready => ready']_vars

\* three ready events were handled, the second and third while the server
\* of the first was running: one server was started, it listens and has
\* accepted a connection
C39_Witness ==
    /\ \A e \in BootEvents : task[e].pc = "done"
    /\ readyCalls = 3
    /\ ready
    /\ task[ServerTask] = [pc |-> "listening", starts |-> 1]
    /\ \E c \in Conns : pc[c] = "open"

\* the Discord permission and the profile field that stand for an action
PermissionFor(action) ==
    CASE action = "kick" -> "kick_members"
      [] action = "ban" -> "ban_members"
      [] action = "timeout" -> "moderate_members"
CapFieldFor(action) ==
    CASE action = "kick" -> "can_kick"
      [] action = "ban" -> "can_ban"
      [] action = "timeout" -> "can_timeout"

\* the check's answer: denied
Denied == [pc |-> "idle", allowed |-> FALSE]

\* C40: the check of an in-game moderation command answers yes only at its
\* last step, which it reaches only with cross moderation not switched off
\* for the guild when it read the toggle and with a link row of the guild
\* for the player's name; and there it answers yes exactly when the linked
\* member, if resolved, holds the action's permission or administrator, or,
\* if not resolved, the cached row of (guild, account) has the capability.
C40_ModerationOnlyWhenAuthorized ==
    [][LET b == task[BridgeTask]
           b2 == task'[BridgeTask]
       IN  /\ \A g \in Guilds, action \in BridgeActions :
                (/\ BridgeCheck(g, action)
                 /\ g \in DOMAIN guild_crossmod /\ guild_crossmod[g] = 0)
                    => b2 = Denied
           /\ (b.pc = "b_link" /\ b2 # b)
                => IF \E k \in DOMAIN user_links :
                        k[1] = b.guild /\ user_links[k].mc_name = PlayerName
                   THEN /\ b2.pc = "b_member"
                        /\ b2.guild = b.guild /\ b2.action = b.action
                        /\ \E k \in DOMAIN user_links :
                            /\ k[1] = b.guild
                            /\ user_links[k].mc_name = PlayerName
                            /\ user_links[k].mc_uuid = b2.uuid
                   ELSE b2 = Denied
           /\ \A member \in SampleMembers \cup {NoMember} :
                BridgeMember(member)
                    => (b2.allowed <=>
                        IF member # NoMember
                        THEN \/ PermissionFor(b.action) \in member.perms
                             \/ "administrator" \in member.perms
                        ELSE /\ <<b.guild, b.uuid>> \in DOMAIN mc_perm_cache
                             /\ mc_perm_cache[<<b.guild, b.uuid>>]
                                    [CapFieldFor(b.action)] = 1)
           /\ (b2 # b /\ b2.pc = "idle" /\ b2.allowed) => b.pc = "b_member"
           /\ (b2.pc = "b_member" /\ b.pc # "b_member") => b.pc = "b_link"
           /\ (b2.pc = "b_link" /\ b.pc # "b_link") => b.pc = "idle"]_vars

\* a check answered yes with cross moderation switched on for g1 and the
\* capability in the cached row of the linked account
C40_Witness ==
    /\ task[BridgeTask] = [pc |-> "idle", allowed |-> TRUE]
    /\ "g1" \in DOMAIN guild_crossmod /\ guild_crossmod["g1"] = 1
    /\ DOMAIN user_links = {<<"g1", DiscordUser>>}
    /\ <<"g1", <<"u">>>> \in DOMAIN mc_perm_cache
    /\ mc_perm_cache[<<"g1", <<"u">>>>].can_kick = 1
    /\ mc_perm_cache[<<"g1", <<"u">>>>].can_ban = 0
    /\ mc_perm_cache[<<"g1", <<"u">>>>].last_sync < now

====
